---- MODULE Spec2Model ----
(***************************************************************************)
(* Plugin instance adapter of rack-sys: one instance of either backend     *)
(* (AudioUnit: au_instance.cpp, VST3: vst3_instance.cpp) driven by one     *)
(* owning thread.  Every action is one call of the C API; the outcomes of  *)
(* the native framework calls it makes are drawn nondeterministically.     *)
(*                                                                         *)
(* Numbers.  Normalized parameter values are integers in units of          *)
(* 1/NormOne (NormOne is 1.0).  AudioUnit native parameter ranges are      *)
(* integers in units of epsilon (1e-7), so Epsilon is 1; native parameter  *)
(* values are kept in units of epsilon/NormOne, which makes                *)
(* min + v * (max - min) exact.                                            *)
(***************************************************************************)
EXTENDS Integers, Sequences, FiniteSets

\* ------------------------------------------------------------------ bounds
MaxBlock == 5
MaxParams == 2
MaxSamplePos == 6
MaxQueue == 2
MaxBatch == 2
MaxPresets == 2
MaxUnits == 2
MaxInstalled == 3

\* --------------------------------------------------------- program constants
RACK_OK == 0
RACK_ERROR_GENERIC == -1
RACK_ERROR_NOT_FOUND == -2
RACK_ERROR_INVALID_PARAM == -3
RACK_ERROR_NOT_INITIALIZED == -4
RACK_AU_ERROR_AUDIO_UNIT == -1000
noErr == 0
kAudioUnitErr_TooManyFramesToProcess == -10874
Epsilon == 1
NormOne == 4
NOTE_ON == 144
TIMING_CLOCK == 248
\* the fixed size get_state_size reports
StateSizeHint == 1024 * 1024
\* sizeof(size_marker)
MarkerSize == 4

\* ------------------------------------------------------------- input domains
FrameCounts == 0..(MaxBlock + 1)
\* some failure status of a native AudioUnit call
nativeError == noErr - 1
NativeStatus == {noErr, nativeError}

VARIABLES
    backend,              \* "AU" or "VST3"
    \* --- the native plugin behind the handle
    plugRanges,           \* AU: <<min, max>> of each native parameter
    ctrl,                 \* VST3: "none", "same" or "separate" edit controller
    busChannels,          \* VST3: channels of the main input / output bus (0: no bus)
    plugPrograms,         \* VST3: programs the unit info exposes
    plugQuirks,           \* VST3: native queries this plugin fails
    plugEngineState,      \* VST3: the component's own state data
    pvalue,               \* native value of each parameter
    nativeInit,           \* AU: AudioUnitInitialize has succeeded
    active,               \* VST3: component is active
    processing,           \* VST3: processor is processing
    busActive,            \* VST3: activated buses
    heap,                 \* live adapter-side allocations
    natives,              \* live native objects and the instance itself
    freed,                \* free has released the instance
    \* --- RackAUPlugin / RackVST3Plugin fields
    audio_unit,
    initialized,
    sample_rate,
    max_block_size,
    input_buffer_list,
    output_buffer_list,
    current_input,
    sample_position,
    parameter_count,
    parameter_ids,
    parameter_info,
    num_input_channels,
    num_output_channels,
    parameters,
    presets,
    input_param_changes,
    input_events,
    \* --- what the last call did
    op,                   \* the call and its arguments
    ret,                  \* its return code
    calls,                \* native calls it made, in order
    outv,                 \* value stored through an output pointer
    written,              \* positions of the caller's output it wrote
    oob,                  \* it indexed a cache outside its bounds
    everInitOk,           \* some initialize has returned Ok
    \* --- the caller's side
    state_data,           \* the buffer get_state last filled
    \* --- threads that each drive an instance of their own
    thread_backend,       \* backend of the thread's instance ("none": no instance)
    thread_initialized,   \* the thread's instance is initialized
    thread_fn,            \* the function the thread is in ("idle": none)
    thread_ok,            \* whether that call is going to succeed
    thread_at,            \* the step of it the thread is executing
    thread_steps,         \* the steps still ahead of it
    g_audio_unit_cleanup_mutex,   \* thread holding the AudioUnit mutex, or "free"
    g_vst3_lifecycle_mutex,       \* thread holding the VST3 mutex, or "free"
    \* --- the scanner
    installed,            \* the plug-ins the system enumerates, in order
    components            \* RackAUScanner::components

plugVars == <<backend, plugRanges, ctrl, busChannels, plugPrograms, plugQuirks,
              plugEngineState>>
nativeVars == <<pvalue, nativeInit, active, processing, busActive, heap>>
auFields == <<audio_unit, input_buffer_list, output_buffer_list, current_input,
              sample_position, parameter_count, parameter_ids, parameter_info>>
vstFields == <<num_input_channels, num_output_channels, parameters, presets,
               input_param_changes, input_events>>
cfgFields == <<initialized, sample_rate, max_block_size>>
logVars == <<op, ret, calls, outv, written, oob, everInitOk>>
handleVars == <<natives, freed>>
threadVars == <<thread_backend, thread_initialized, thread_fn, thread_ok, thread_at,
                thread_steps,
                g_audio_unit_cleanup_mutex, g_vst3_lifecycle_mutex>>
scanVars == <<installed, components>>
vars == <<plugVars, nativeVars, handleVars, auFields, vstFields, cfgFields, logVars,
          state_data, threadVars, scanVars>>

Call(f) == [f |-> f]

\* the threads that drive the instances
Threads == {"t1", "t2"}

\* the call is made on a live handle, by the thread that owns the instance,
\* and leaves the handle live
KeepsHandle == ~freed /\ UNCHANGED <<handleVars, threadVars, scanVars>>

NoLog(name, args, code) ==
    /\ op' = [name |-> name, a |-> args]
    /\ ret' = code
    /\ calls' = <<>>
    /\ outv' = 0
    /\ written' = {}
    /\ oob' = FALSE
    /\ UNCHANGED everInitOk

Log(name, args, code, cs) ==
    /\ op' = [name |-> name, a |-> args]
    /\ ret' = code
    /\ calls' = cs
    /\ outv' = 0
    /\ written' = {}
    /\ oob' = FALSE

\* ------------------------------------------------------------------- Init
\* AudioUnits: no parameter; a regular and a zero-span parameter; a
\* near-zero-span and an inverted-span parameter. The one without parameters
\* has no factory preset, the others have one
AUPlugins ==
    {<<>>, <<<<1, 4>>, <<2, 2>>>>, <<<<1, 2>>, <<3, 1>>>>}

\* VST3 plugins: effect with separate controller and a program list;
\* instrument whose component is its own controller; plugin without
\* controller; effect that fails the descriptor query of its first parameter
\* and the bus info query. The component's own state data is two bytes, one
\* byte, a megabyte of bulk and a byte, none
VST3Plugins ==
    {[n |-> 2, ctrl |-> "separate", in |-> 2, out |-> 2, programs |-> 1, quirks |-> {},
      engine |-> [pad |-> 0, bytes |-> <<9, 8>>]],
     [n |-> 1, ctrl |-> "same", in |-> 0, out |-> 2, programs |-> 0, quirks |-> {},
      engine |-> [pad |-> 0, bytes |-> <<7>>]],
     [n |-> 1, ctrl |-> "none", in |-> 1, out |-> 1, programs |-> 0, quirks |-> {},
      engine |-> [pad |-> StateSizeHint, bytes |-> <<6>>]],
     [n |-> 2, ctrl |-> "separate", in |-> 2, out |-> 1, programs |-> 0,
      quirks |-> {"getParameterInfo:0", "getBusInfo"},
      engine |-> [pad |-> 0, bytes |-> <<>>]]}

InitCommon ==
    /\ nativeInit = FALSE
    /\ active = FALSE
    /\ processing = FALSE
    /\ busActive = {}
    /\ heap = {}
    /\ freed = FALSE
    /\ thread_backend = [t \in Threads |-> "none"]
    /\ thread_initialized = [t \in Threads |-> FALSE]
    /\ thread_fn = [t \in Threads |-> "idle"]
    /\ thread_ok = [t \in Threads |-> TRUE]
    /\ thread_at = [t \in Threads |-> "idle"]
    /\ thread_steps = [t \in Threads |-> <<>>]
    /\ g_audio_unit_cleanup_mutex = "free"
    /\ g_vst3_lifecycle_mutex = "free"
    /\ installed = <<>>
    /\ components = <<>>
    /\ state_data = [pad |-> 0, bytes |-> <<>>]
    /\ audio_unit = "valid"
    /\ initialized = FALSE
    /\ sample_rate = 0
    /\ max_block_size = 0
    /\ input_buffer_list = FALSE
    /\ output_buffer_list = FALSE
    /\ current_input = FALSE
    /\ sample_position = 0
    /\ parameter_count = 0
    /\ parameter_ids = <<>>
    /\ parameter_info = <<>>
    /\ num_input_channels = 0
    /\ num_output_channels = 0
    /\ parameters = <<>>
    /\ presets = <<>>
    /\ input_param_changes = <<>>
    /\ input_events = <<>>
    /\ op = [name |-> "new", a |-> [x |-> 0]]
    /\ ret = RACK_OK
    /\ calls = <<>>
    /\ outv = 0
    /\ written = {}
    /\ oob = FALSE
    /\ everInitOk = FALSE

InitAU ==
    /\ backend = "AU"
    /\ plugRanges \in AUPlugins
    /\ ctrl = "none"
    /\ busChannels = [in |-> 0, out |-> 0]
    /\ plugPrograms = IF plugRanges = <<>> THEN 0 ELSE 1
    /\ plugQuirks = {}
    /\ plugEngineState = [pad |-> 0, bytes |-> <<>>]
    /\ natives = {"instance", "audio_unit"}
    /\ pvalue = [i \in 1..Len(plugRanges) |-> plugRanges[i][1] * NormOne]
    /\ InitCommon

InitVST3 ==
    /\ backend = "VST3"
    /\ \E p \in VST3Plugins :
           /\ plugRanges = [i \in 1..p.n |-> <<0, 1>>]
           /\ ctrl = p.ctrl
           /\ busChannels = [in |-> p.in, out |-> p.out]
           /\ plugPrograms = p.programs
           /\ plugQuirks = p.quirks
           /\ plugEngineState = p.engine
    /\ natives = {"instance", "module", "component"}
                 \cup (IF ctrl = "separate"
                       THEN {"controller", "component_cp", "controller_cp"} ELSE {})
    /\ pvalue = [i \in 1..Len(plugRanges) |-> 0]
    /\ InitCommon

Init == InitAU \/ InitVST3

\* ------------------------------------------------------- AU: initialize
InBlocks == {"in_list", "in_0", "in_1"}
OutBlocks == {"out_list", "out_0", "out_1"}
\* allocations whose failure initialize can see: the two malloc calls of the
\* buffer lists (the aligned operator new reports failure by throwing, so the
\* null checks on the sample buffers, "in_data" and "out_data", never fire)
AUInitOutcomes ==
    {"in_list", "out_list"} \cup {"AudioUnitInitialize"}
    \cup {"no_list", "ids_malloc_fail", "list_fail", "info_malloc_fail", "info_fail",
          "cached"}

AUFormatCalls ==
    <<Call("AudioUnitSetProperty:StreamFormat:Input"),
      Call("AudioUnitSetProperty:StreamFormat:Output"),
      Call("AudioUnitSetProperty:MaximumFramesPerSlice")>>

AUInitCalls ==
    AUFormatCalls \o <<Call("AudioUnitSetProperty:SetRenderCallback"),
                       Call("AudioUnitInitialize")>>

\* parameter list query and cache construction at the end of initialize
AUBuildParameterCache(pq) ==
    LET n == Len(plugRanges) IN
    IF n = 0 \/ pq \in {"no_list", "ids_malloc_fail", "list_fail"} THEN
        /\ parameter_count' = 0
        /\ parameter_ids' = <<>>
        /\ parameter_info' = <<>>
        /\ heap' = heap \cup InBlocks \cup OutBlocks
    ELSE
        /\ parameter_count' = n
        /\ parameter_ids' = [i \in 1..n |-> i]
        /\ parameter_info' = IF pq = "cached" THEN plugRanges ELSE <<>>
        /\ heap' = heap \cup InBlocks \cup OutBlocks \cup {"parameter_ids"}
                        \cup (IF pq = "cached" THEN {"parameter_info"} ELSE {})

AUInitialize(sr, mbs, outcome, st) ==
    /\ backend = "AU"
    /\ LET args == [sample_rate |-> sr, max_block_size |-> mbs] IN
       IF audio_unit = "null" THEN
           /\ NoLog("initialize", args, RACK_ERROR_NOT_INITIALIZED)
           /\ UNCHANGED <<plugVars, nativeVars, auFields, vstFields, cfgFields>>
       ELSE IF initialized THEN
           /\ NoLog("initialize", args, RACK_OK)
           /\ UNCHANGED <<plugVars, nativeVars, auFields, vstFields, cfgFields>>
       ELSE
           /\ sample_rate' = sr
           /\ max_block_size' = mbs
           /\ UNCHANGED <<plugVars, vstFields, pvalue, active, processing, busActive,
                          current_input, sample_position>>
           /\ IF outcome \in {"in_list", "in_data", "out_list"} THEN
                  \* every block allocated so far is released again
                  /\ Log("initialize", args, RACK_ERROR_GENERIC, AUFormatCalls)
                  /\ UNCHANGED <<everInitOk, initialized, nativeInit, heap, audio_unit,
                                 input_buffer_list, output_buffer_list,
                                 parameter_count, parameter_ids, parameter_info>>
              ELSE IF outcome = "out_data" THEN
                  \* buffers released and the AudioUnit instance disposed
                  /\ Log("initialize", args, RACK_ERROR_GENERIC,
                         Append(AUFormatCalls, Call("AudioComponentInstanceDispose")))
                  /\ audio_unit' = "null"
                  /\ UNCHANGED <<everInitOk, initialized, nativeInit, heap,
                                 input_buffer_list, output_buffer_list,
                                 parameter_count, parameter_ids, parameter_info>>
              ELSE IF outcome = "AudioUnitInitialize" THEN
                  /\ Log("initialize", args, RACK_AU_ERROR_AUDIO_UNIT + st, AUInitCalls)
                  /\ UNCHANGED <<everInitOk, initialized, nativeInit, heap, audio_unit,
                                 input_buffer_list, output_buffer_list,
                                 parameter_count, parameter_ids, parameter_info>>
              ELSE
                  /\ Log("initialize", args, RACK_OK,
                         Append(AUInitCalls, Call("AudioUnitGetPropertyInfo:ParameterList")))
                  /\ nativeInit' = TRUE
                  /\ input_buffer_list' = TRUE
                  /\ output_buffer_list' = TRUE
                  /\ AUBuildParameterCache(outcome)
                  /\ initialized' = TRUE
                  /\ everInitOk' = TRUE
                  /\ UNCHANGED audio_unit

\* ----------------------------------------------------- VST3: initialize

VST3BusCalls ==
    (IF busChannels.in > 0 THEN <<Call("activateBus:Input")>> ELSE <<>>)
    \o (IF busChannels.out > 0 THEN <<Call("activateBus:Output")>> ELSE <<>>)

\* parameters whose getParameterInfo succeeded, in controller order
VST3Initialize(sr, mbs, fail) ==
    /\ backend = "VST3"
    /\ Len(presets) + plugPrograms <= MaxPresets
    /\ LET args == [sample_rate |-> sr, max_block_size |-> mbs] IN
       /\ sample_rate' = sr
       /\ max_block_size' = mbs
       /\ UNCHANGED <<plugVars, auFields, pvalue, nativeInit, heap,
                      input_param_changes, input_events>>
       /\ IF fail = "setupProcessing" THEN
              /\ Log("initialize", args, RACK_ERROR_GENERIC, <<Call("setupProcessing")>>)
              /\ UNCHANGED <<everInitOk, initialized, active, processing, busActive,
                             num_input_channels, num_output_channels, parameters, presets>>
          ELSE
              /\ busActive' = busActive \cup ((IF busChannels.in > 0 THEN {"in"} ELSE {})
                                              \cup (IF busChannels.out > 0 THEN {"out"} ELSE {}))
              /\ num_input_channels' =
                    IF busChannels.in > 0 /\ "getBusInfo" \notin plugQuirks
                    THEN busChannels.in ELSE num_input_channels
              /\ num_output_channels' =
                    IF busChannels.out > 0 /\ "getBusInfo" \notin plugQuirks
                    THEN busChannels.out ELSE num_output_channels
              /\ IF fail = "setActive" THEN
                     /\ Log("initialize", args, RACK_ERROR_GENERIC,
                            <<Call("setupProcessing")>> \o VST3BusCalls
                               \o <<Call("setActive:true")>>)
                     /\ UNCHANGED <<everInitOk, initialized, active, processing,
                                    parameters, presets>>
                 ELSE IF fail = "setProcessing" THEN
                     /\ Log("initialize", args, RACK_ERROR_GENERIC,
                            <<Call("setupProcessing")>> \o VST3BusCalls
                               \o <<Call("setActive:true"), Call("setProcessing:true"),
                                    Call("setActive:false")>>)
                     /\ active' = FALSE
                     /\ UNCHANGED <<everInitOk, initialized, processing, parameters, presets>>
                 ELSE
                     /\ Log("initialize", args, RACK_OK,
                            <<Call("setupProcessing")>> \o VST3BusCalls
                               \o <<Call("setActive:true"), Call("setProcessing:true")>>)
                     /\ active' = TRUE
                     /\ processing' = TRUE
                     /\ parameters' =
                            IF ctrl = "none" THEN parameters
                            ELSE LET n == Len(plugRanges) IN
                                 IF "getParameterInfo:0" \in plugQuirks /\ n > 0
                                 THEN [i \in 1..(n - 1) |-> i + 1]
                                 ELSE [i \in 1..n |-> i]
                     /\ presets' =
                            IF ctrl = "none" THEN presets
                            ELSE presets \o [j \in 1..plugPrograms |->
                                                [program_list_id |-> 1,
                                                 program_index |-> j - 1]]
                     /\ initialized' = TRUE
                     /\ everInitOk' = TRUE

\* ------------------------------------------------------------ VST3: reset
VST3Reset(reactivated) ==
    /\ backend = "VST3"
    /\ UNCHANGED <<plugVars, auFields, vstFields, cfgFields, pvalue, nativeInit,
                   processing, busActive, heap>>
    /\ IF ~initialized THEN
           /\ NoLog("reset", [x |-> 0], RACK_ERROR_NOT_INITIALIZED)
           /\ UNCHANGED active
       ELSE
           /\ Log("reset", [x |-> 0],
                  IF reactivated THEN RACK_OK ELSE RACK_ERROR_GENERIC,
                  <<Call("setActive:false"), Call("setActive:true")>>)
           /\ active' = reactivated
           /\ UNCHANGED everInitOk

\* ---------------------------------------------------------------- process
SimdFrames(n) == (n \div 4) * 4

SimdIndices(n) == {i \in 0..(n - 1) : i % 4 = 0 /\ i < SimdFrames(n)}

\* the 4-wide loop run over the frame count rounded up instead of down
InterleaveWritesMutant(frames) ==
    UNION {(2 * i)..(2 * i + 7) : i \in {j \in 0..(frames - 1) : j % 4 = 0}}

\* positions of the interleaved output written by the 4-wide loop and the
\* scalar remainder loop
InterleaveWrites(frames) ==
    UNION {(2 * i)..(2 * i + 7) : i \in SimdIndices(frames)}
    \cup UNION {{2 * i, 2 * i + 1} : i \in SimdFrames(frames)..(frames - 1)}

\* positions of each native input buffer written by the render callback
DeinterleaveWrites(n) ==
    UNION {i..(i + 3) : i \in SimdIndices(n)} \cup (SimdFrames(n)..(n - 1))

SilenceWrites(frames) == 0..(2 * frames - 1)

\* the stores of one 4-wide step of the interleaving loop, in program order:
\* left and right are loaded from frame i on, their low halves are unpacked
\* to output[2i ..], their high halves to output[2i + 4 ..]; a sample is
\* named by its channel and frame
InterleaveBlockMutant(i) ==
    LET left == [k \in 1..4 |-> [ch |-> "L", frame |-> i + k - 1]]
        right == [k \in 1..4 |-> [ch |-> "R", frame |-> i + k - 1]]
        low == <<left[1], right[1], left[2], right[2]>>
        high == <<left[3], right[3], left[4], right[4]>>
    IN  [k \in 1..4 |-> [at |-> 2 * i + k - 1, value |-> high[k]]]
        \o [k \in 1..4 |-> [at |-> 2 * i + 4 + k - 1, value |-> low[k]]]

InterleaveBlock(i) ==
    LET left == [k \in 1..4 |-> [ch |-> "L", frame |-> i + k - 1]]
        right == [k \in 1..4 |-> [ch |-> "R", frame |-> i + k - 1]]
        low == <<left[1], right[1], left[2], right[2]>>
        high == <<left[3], right[3], left[4], right[4]>>
    IN  [k \in 1..4 |-> [at |-> 2 * i + k - 1, value |-> low[k]]]
        \o [k \in 1..4 |-> [at |-> 2 * i + 4 + k - 1, value |-> high[k]]]

\* the interleaving loops of rack_au_plugin_process from frame i on: 4-wide
\* steps below simd_frames, then one frame at a time
RECURSIVE InterleaveFrom(_, _)
InterleaveFrom(i, frames) ==
    IF i < SimdFrames(frames) THEN InterleaveBlock(i) \o InterleaveFrom(i + 4, frames)
    ELSE IF i < frames THEN
        <<[at |-> 2 * i, value |-> [ch |-> "L", frame |-> i]],
          [at |-> 2 * i + 1, value |-> [ch |-> "R", frame |-> i]]>>
        \o InterleaveFrom(i + 1, frames)
    ELSE <<>>

\* the stores of one 4-wide step of the deinterleaving loop: two loads of
\* four interleaved samples, shuffled into the even and the odd ones
DeinterleaveBlock(i) ==
    LET interleaved(p) == [ch |-> IF p % 2 = 0 THEN "L" ELSE "R", frame |-> p \div 2]
        pair0 == [k \in 1..4 |-> interleaved(2 * i + k - 1)]
        pair1 == [k \in 1..4 |-> interleaved(2 * i + 4 + k - 1)]
        left == <<pair0[1], pair0[3], pair1[1], pair1[3]>>
        right == <<pair0[2], pair0[4], pair1[2], pair1[4]>>
    IN  [k \in 1..4 |-> [to |-> "left_out", at |-> i + k - 1, value |-> left[k]]]
        \o [k \in 1..4 |-> [to |-> "right_out", at |-> i + k - 1, value |-> right[k]]]

\* the deinterleaving loops of input_render_callback from frame i on
RECURSIVE DeinterleaveFrom(_, _)
DeinterleaveFrom(i, n) ==
    IF i < SimdFrames(n) THEN DeinterleaveBlock(i) \o DeinterleaveFrom(i + 4, n)
    ELSE IF i < n THEN
        <<[to |-> "left_out", at |-> i, value |-> [ch |-> "L", frame |-> i]],
          [to |-> "right_out", at |-> i, value |-> [ch |-> "R", frame |-> i]]>>
        \o DeinterleaveFrom(i + 1, n)
    ELSE <<>>

\* one conversion of a block of `frames` frames: the stores it makes, logged
\* in `calls`
AUConvert(direction, frames) ==
    /\ backend = "AU"
    /\ initialized
    /\ frames <= max_block_size
    /\ UNCHANGED <<plugVars, nativeVars, auFields, vstFields, cfgFields, everInitOk>>
    /\ op' = [name |-> direction, a |-> [frames |-> frames]]
    /\ ret' = RACK_OK
    /\ calls' = IF direction = "interleave" THEN InterleaveFrom(0, frames)
                ELSE DeinterleaveFrom(0, frames)
    /\ outv' = 0
    /\ written' = {}
    /\ oob' = FALSE

\* `read` are the positions of the interleaved caller input the callback
\* reads, `silence` whether it sets kAudioUnitRenderAction_OutputIsSilence
input_render_callback(cur, n, ioOk) ==
    IF ~cur THEN
        [f |-> "input_render_callback", n |-> n, ret |-> noErr, wrote |-> {},
         read |-> {}, silence |-> TRUE]
    ELSE IF n > max_block_size THEN
        [f |-> "input_render_callback", n |-> n,
         ret |-> kAudioUnitErr_TooManyFramesToProcess, wrote |-> {},
         read |-> {}, silence |-> TRUE]
    ELSE IF ioOk THEN
        [f |-> "input_render_callback", n |-> n, ret |-> noErr,
         wrote |-> DeinterleaveWrites(n),
         read |-> {2 * i + c : i \in DeinterleaveWrites(n), c \in {0, 1}},
         silence |-> FALSE]
    ELSE
        [f |-> "input_render_callback", n |-> n, ret |-> noErr, wrote |-> {},
         read |-> {}, silence |-> TRUE]

\* the AudioUnit invoking the registered callback when no AudioUnitRender of
\* rack_au_plugin_process is under way
AURenderCallback(n, ioOk) ==
    /\ backend = "AU"
    /\ initialized
    /\ UNCHANGED <<plugVars, nativeVars, auFields, vstFields, cfgFields, everInitOk>>
    /\ LET c == input_render_callback(current_input, n, ioOk) IN
       /\ op' = [name |-> "input_render_callback", a |-> [n |-> n, ioOk |-> ioOk]]
       /\ ret' = c.ret
       /\ calls' = <<c>>
       /\ outv' = 0
       /\ written' = {}
       /\ oob' = FALSE

AUProcessNotReadyMutant == ~initialized /\ sample_rate = 0

AUProcessNotReady == ~initialized

AUProcessInvalid(inNull, outNull, frames) ==
    \/ inNull \/ outNull \/ frames = 0
    \/ frames > max_block_size

\* what one AudioUnitRender does: its status, the frames it asks of the render
\* callback (-1: it does not pull input), whether the buffers it hands to the
\* callback pass validation, whether the output buffer list passes validation
\* afterwards
RenderOutcomes(frames) ==
    {[st |-> noErr, cb |-> -1, ioOk |-> TRUE, outOk |-> TRUE],
     [st |-> noErr, cb |-> frames, ioOk |-> TRUE, outOk |-> TRUE],
     [st |-> noErr, cb |-> frames, ioOk |-> FALSE, outOk |-> FALSE],
     [st |-> noErr, cb |-> MaxBlock + 1, ioOk |-> TRUE, outOk |-> TRUE],
     [st |-> kAudioUnitErr_TooManyFramesToProcess, cb |-> MaxBlock + 1,
      ioOk |-> TRUE, outOk |-> TRUE],
     [st |-> nativeError, cb |-> -1, ioOk |-> TRUE, outOk |-> TRUE]}

AdvanceMutant(position, frames) == frames

\* sample_position += frames
Advance(position, frames) == position + frames

ClearInputMutant(input) == input

\* plugin->current_input = nullptr after AudioUnitRender
ClearInput(input) == FALSE

AUProcess(bufs, frames) ==
    /\ backend = "AU"
    /\ UNCHANGED <<plugVars, nativeVars, vstFields, cfgFields, audio_unit,
                   input_buffer_list, output_buffer_list,
                   parameter_count, parameter_ids, parameter_info, everInitOk>>
    /\ LET args == [bufs |-> bufs, nin |-> 2, nout |-> 2, frames |-> frames] IN
       IF AUProcessNotReady THEN
           /\ NoLog("process", args, RACK_ERROR_NOT_INITIALIZED)
           /\ UNCHANGED <<sample_position, current_input>>
       ELSE IF AUProcessInvalid(bufs = "in_null", bufs = "out_null", frames) THEN
           /\ NoLog("process", args, RACK_ERROR_INVALID_PARAM)
           /\ UNCHANGED <<sample_position, current_input>>
       ELSE
           /\ sample_position + frames <= MaxSamplePos
           /\ current_input' = ClearInput(TRUE)
           /\ \E r \in RenderOutcomes(frames) :
                 /\ op' = [name |-> "process", a |-> args]
                 /\ calls' = <<[f |-> "AudioUnitRender", frames |-> frames,
                                time |-> sample_position]>>
                             \o (IF r.cb >= 0
                                 THEN <<input_render_callback(TRUE, r.cb, r.ioOk)>>
                                 ELSE <<>>)
                 /\ outv' = 0
                 /\ oob' = FALSE
                 /\ IF r.st # noErr THEN
                        /\ ret' = RACK_AU_ERROR_AUDIO_UNIT + r.st
                        /\ written' = {}
                        /\ UNCHANGED sample_position
                    ELSE
                        /\ ret' = RACK_OK
                        /\ written' = {<<1, k>> : k \in IF r.outOk
                                                        THEN InterleaveWrites(frames)
                                                        ELSE SilenceWrites(frames)}
                        /\ sample_position' = Advance(sample_position, frames)

VST3ProcessInvalid(inNull, outNull, nin, nout, frames) ==
    \/ nin # num_input_channels
    \/ nout # num_output_channels
    \/ frames > max_block_size
    \/ (nin > 0 /\ inNull)
    \/ (nout > 0 /\ outNull)

ClearMutant(queue) == queue

\* EventList::clear and ParameterChanges::clearQueue after the native call
Clear(queue) == <<>>

VST3Process(bufs, nin, nout, frames) ==
    /\ backend = "VST3"
    /\ UNCHANGED <<plugVars, nativeVars, auFields, cfgFields, num_input_channels,
                   num_output_channels, parameters, presets, everInitOk>>
    /\ LET args == [bufs |-> bufs, nin |-> nin, nout |-> nout, frames |-> frames] IN
       IF ~initialized THEN
           /\ NoLog("process", args, RACK_ERROR_NOT_INITIALIZED)
           /\ UNCHANGED <<input_param_changes, input_events>>
       ELSE IF VST3ProcessInvalid(bufs = "in_null", bufs = "out_null", nin, nout, frames) THEN
           /\ NoLog("process", args, RACK_ERROR_INVALID_PARAM)
           /\ UNCHANGED <<input_param_changes, input_events>>
       ELSE
           \E ok \in BOOLEAN :
               /\ op' = [name |-> "process", a |-> args]
               /\ calls' = <<[f |-> "process", numSamples |-> frames,
                              inputEvents |-> input_events,
                              inputParameterChanges |-> input_param_changes]>>
               /\ outv' = 0
               /\ oob' = FALSE
               /\ ret' = IF ok THEN RACK_OK ELSE RACK_ERROR_GENERIC
               /\ written' = IF ok
                             THEN {<<c, k>> : c \in 1..nout, k \in 0..(frames - 1)}
                             ELSE {}
               /\ input_events' = Clear(input_events)
               /\ input_param_changes' = Clear(input_param_changes)

\* -------------------------------------------------------------- parameters
Clamp01(v) == IF v < 0 THEN 0 ELSE IF v > NormOne THEN NormOne ELSE v

IndexOutOfRangeMutant(index, count) == index > count

IndexOutOfRange(index, count) == index >= count

IdAt(ids, index) == IF index < Len(ids) THEN ids[index + 1] ELSE MaxParams + 1

InfoAt(infos, index) == IF index < Len(infos) THEN infos[index + 1] ELSE <<0, 1>>

NativeInfo(id) == IF id \in DOMAIN plugRanges THEN plugRanges[id] ELSE <<0, 1>>

NativeValue(id) == IF id \in DOMAIN pvalue THEN pvalue[id] ELSE 0

NativeStore(id, x) == IF id \in DOMAIN pvalue THEN [pvalue EXCEPT ![id] = x] ELSE pvalue

\* the transform without the offset of the range
AUDenormalizeMutant(value, min_val, max_val) ==
    value * (max_val - min_val)

\* native = min + normalized * (max - min), in units of epsilon / NormOne
AUDenormalize(value, min_val, max_val) ==
    min_val * NormOne + value * (max_val - min_val)

\* the span equal to epsilon taken for a regular range
AUNormalizeMutant(raw_value, min_val, max_val) ==
    LET range == max_val - min_val IN
    IF max_val < min_val THEN NormOne \div 2
    ELSE IF range >= Epsilon THEN Clamp01((raw_value - min_val * NormOne) \div range)
    ELSE 0

\* normalized = (native - min) / (max - min) clamped, with the range guards
AUNormalize(raw_value, min_val, max_val) ==
    LET range == max_val - min_val IN
    IF max_val < min_val THEN NormOne \div 2
    ELSE IF range > Epsilon THEN Clamp01((raw_value - min_val * NormOne) \div range)
    ELSE 0

AUSetParameter(index, v) ==
    /\ backend = "AU"
    /\ UNCHANGED <<plugVars, auFields, vstFields, cfgFields, nativeInit, active,
                   processing, busActive, heap, everInitOk>>
    /\ LET args == [index |-> index, value |-> v] IN
       IF ~initialized THEN
           /\ NoLog("set_parameter", args, RACK_ERROR_NOT_INITIALIZED)
           /\ UNCHANGED pvalue
       ELSE IF IndexOutOfRange(index, parameter_count) THEN
           /\ NoLog("set_parameter", args, RACK_ERROR_INVALID_PARAM)
           /\ UNCHANGED pvalue
       ELSE
           LET value == Clamp01(v)
               param_id == IdAt(parameter_ids, index)
               cached == parameter_info # <<>>
               param_info == IF cached THEN InfoAt(parameter_info, index)
                             ELSE NativeInfo(param_id)
               raw_value == AUDenormalize(value, param_info[1], param_info[2])
               query == IF cached THEN <<>>
                        ELSE <<Call("AudioUnitGetProperty:ParameterInfo")>>
           IN
           \E infoSt \in (IF cached THEN {noErr} ELSE NativeStatus), st \in NativeStatus :
           /\ op' = [name |-> "set_parameter", a |-> args]
           /\ outv' = 0
           /\ written' = {}
           /\ oob' = (index >= Len(parameter_ids)
                      \/ (cached /\ index >= Len(parameter_info)))
           /\ IF ~cached /\ infoSt # noErr THEN
                  /\ ret' = RACK_AU_ERROR_AUDIO_UNIT + infoSt
                  /\ calls' = query
                  /\ UNCHANGED pvalue
              ELSE
                  /\ calls' = Append(query, [f |-> "AudioUnitSetParameter",
                                             id |-> param_id, value |-> raw_value,
                                             accepted |-> (st = noErr)])
                  /\ ret' = IF st = noErr THEN RACK_OK ELSE RACK_AU_ERROR_AUDIO_UNIT + st
                  /\ pvalue' = IF st = noErr THEN NativeStore(param_id, raw_value)
                               ELSE pvalue

AUGetParameter(index, valueNull) ==
    /\ backend = "AU"
    /\ UNCHANGED <<plugVars, nativeVars, auFields, vstFields, cfgFields, everInitOk>>
    /\ LET args == [index |-> index, valueNull |-> valueNull] IN
       IF ~initialized THEN
           NoLog("get_parameter", args, RACK_ERROR_NOT_INITIALIZED)
       ELSE IF valueNull THEN
           NoLog("get_parameter", args, RACK_ERROR_INVALID_PARAM)
       ELSE IF IndexOutOfRange(index, parameter_count) THEN
           NoLog("get_parameter", args, RACK_ERROR_INVALID_PARAM)
       ELSE
           LET param_id == IdAt(parameter_ids, index)
               cached == parameter_info # <<>>
               param_info == IF cached THEN InfoAt(parameter_info, index)
                             ELSE NativeInfo(param_id)
               query == IF cached THEN <<>>
                        ELSE <<Call("AudioUnitGetProperty:ParameterInfo")>>
           IN
           \E infoSt \in (IF cached THEN {noErr} ELSE NativeStatus), st \in NativeStatus :
           /\ op' = [name |-> "get_parameter", a |-> args]
           /\ written' = {}
           /\ oob' = (index >= Len(parameter_ids)
                      \/ (cached /\ index >= Len(parameter_info)))
           /\ IF ~cached /\ infoSt # noErr THEN
                  /\ ret' = RACK_AU_ERROR_AUDIO_UNIT + infoSt
                  /\ calls' = query
                  /\ outv' = 0
              ELSE
                  /\ calls' = Append(query, [f |-> "AudioUnitGetParameter",
                                             id |-> param_id])
                  /\ ret' = IF st = noErr THEN RACK_OK ELSE RACK_AU_ERROR_AUDIO_UNIT + st
                  /\ outv' = IF st = noErr
                             THEN AUNormalize(NativeValue(param_id),
                                              param_info[1], param_info[2])
                             ELSE 0

\* rack_au_plugin_parameter_count / rack_vst3_plugin_parameter_count
ParameterCount ==
    IF backend = "AU" THEN (IF initialized THEN parameter_count ELSE 0)
    ELSE (IF ctrl = "none" THEN 0 ELSE Len(parameters))

\* a new point that drops the changes queued for the other parameters
AddPointMutant(changes, id, value) == <<[id |-> id, value |-> value]>>

\* ParameterChanges::addParameterData + ParameterValueQueue::addPoint(0, value):
\* one queue per parameter id, one point per sample offset
AddPoint(changes, id, value) ==
    IF \E k \in 1..Len(changes) : changes[k].id = id
    THEN [k \in 1..Len(changes) |->
             IF changes[k].id = id THEN [id |-> id, value |-> value] ELSE changes[k]]
    ELSE Append(changes, [id |-> id, value |-> value])

\* the value set_parameter hands to the controller and to the queue
VST3SetValue(v) == v

VST3SetParameter(index, v) ==
    /\ backend = "VST3"
    /\ UNCHANGED <<plugVars, auFields, cfgFields, nativeInit, active, processing,
                   busActive, heap, num_input_channels, num_output_channels,
                   parameters, presets, input_events, everInitOk>>
    /\ LET args == [index |-> index, value |-> v] IN
       IF ctrl = "none" THEN
           /\ NoLog("set_parameter", args, RACK_ERROR_INVALID_PARAM)
           /\ UNCHANGED <<pvalue, input_param_changes>>
       ELSE IF IndexOutOfRange(index, Len(parameters)) THEN
           /\ NoLog("set_parameter", args, RACK_ERROR_INVALID_PARAM)
           /\ UNCHANGED <<pvalue, input_param_changes>>
       ELSE
           LET param_id == IdAt(parameters, index)
               value == VST3SetValue(v)
           IN
           \E accepted \in BOOLEAN :
           /\ op' = [name |-> "set_parameter", a |-> args]
           /\ ret' = RACK_OK
           /\ calls' = <<[f |-> "setParamNormalized", id |-> param_id,
                          value |-> value, accepted |-> accepted]>>
           /\ outv' = 0
           /\ written' = {}
           /\ oob' = (index >= Len(parameters))
           /\ pvalue' = IF accepted THEN NativeStore(param_id, value) ELSE pvalue
           /\ input_param_changes' = AddPoint(input_param_changes, param_id, value)

VST3GetParameter(index, valueNull) ==
    /\ backend = "VST3"
    /\ UNCHANGED <<plugVars, nativeVars, auFields, vstFields, cfgFields, everInitOk>>
    /\ LET args == [index |-> index, valueNull |-> valueNull] IN
       IF ctrl = "none" \/ valueNull THEN
           NoLog("get_parameter", args, RACK_ERROR_INVALID_PARAM)
       ELSE IF IndexOutOfRange(index, Len(parameters)) THEN
           NoLog("get_parameter", args, RACK_ERROR_INVALID_PARAM)
       ELSE
           LET param_id == IdAt(parameters, index) IN
           /\ op' = [name |-> "get_parameter", a |-> args]
           /\ ret' = RACK_OK
           /\ calls' = <<[f |-> "getParamNormalized", id |-> param_id]>>
           /\ outv' = NativeValue(param_id)
           /\ written' = {}
           /\ oob' = (index >= Len(parameters))

\* -------------------------------------------------------------------- MIDI
MidiEvent(status, channel) ==
    [sample_offset |-> 0, status |-> status, data1 |-> 60, data2 |-> 100,
     channel |-> channel]

RECURSIVE SeqsUpTo(_, _)
SeqsUpTo(S, n) ==
    IF n = 0 THEN {<<>>}
    ELSE LET shorter == SeqsUpTo(S, n - 1) IN
         shorter \cup {Append(q, x) : q \in shorter, x \in S}

\* a note-on, a note-on on a channel out of range, a system message whose
\* channel field is unused
MidiBatches ==
    SeqsUpTo({MidiEvent(NOTE_ON, 0), MidiEvent(NOTE_ON, 16), MidiEvent(TIMING_CLOCK, 16)},
             MaxBatch)

UpperNibble(status) == (status \div 16) * 16

\* AU: a channel message whose channel is out of range
AUChannelInvalid(event) == event.status < 240 /\ event.channel > 15

AUStatusByte(event) ==
    IF event.status >= 240 THEN event.status
    ELSE UpperNibble(event.status) + (event.channel % 16)

\* the event loop of rack_au_plugin_send_midi from event i on; failAt is the
\* event MusicDeviceMIDIEvent rejects (0: none) with status st
RECURSIVE AUSendFrom(_, _, _, _)
AUSendFrom(events, i, failAt, st) ==
    IF i > Len(events) THEN [ret |-> RACK_OK, calls |-> <<>>]
    ELSE IF AUChannelInvalid(events[i]) THEN
        [ret |-> RACK_ERROR_INVALID_PARAM, calls |-> <<>>]
    ELSE
        LET c == [f |-> "MusicDeviceMIDIEvent", status |-> AUStatusByte(events[i]),
                  data1 |-> events[i].data1, data2 |-> events[i].data2,
                  offset |-> events[i].sample_offset, accepted |-> (i # failAt)]
        IN
        IF i = failAt THEN [ret |-> RACK_AU_ERROR_AUDIO_UNIT + st, calls |-> <<c>>]
        ELSE LET rest == AUSendFrom(events, i + 1, failAt, st) IN
             [ret |-> rest.ret, calls |-> <<c>> \o rest.calls]

AUSendMidi(evNull, events) ==
    /\ backend = "AU"
    /\ UNCHANGED <<plugVars, nativeVars, auFields, vstFields, cfgFields, everInitOk>>
    /\ LET args == [evNull |-> evNull, events |-> events, event_count |-> Len(events)] IN
       IF ~initialized THEN
           NoLog("send_midi", args, RACK_ERROR_NOT_INITIALIZED)
       ELSE IF evNull /\ Len(events) > 0 THEN
           NoLog("send_midi", args, RACK_ERROR_INVALID_PARAM)
       ELSE IF Len(events) = 0 THEN
           NoLog("send_midi", args, RACK_OK)
       ELSE
           \E failAt \in 0..Len(events) :
           LET r == AUSendFrom(events, 1, failAt, nativeError) IN
           /\ op' = [name |-> "send_midi", a |-> args]
           /\ ret' = r.ret
           /\ calls' = r.calls
           /\ outv' = 0
           /\ written' = {}
           /\ oob' = FALSE

\* the switch of rack_vst3_plugin_send_midi: the events one MIDI event adds to
\* input_events (velocity and pressure in units of 1/127)
VST3TranslateMutant(e) ==
    LET status == UpperNibble(e.status) IN
    IF status = 144 THEN
        <<[type |-> "kNoteOnEvent", sampleOffset |-> e.sample_offset,
           channel |-> e.channel, pitch |-> e.data1, velocity |-> e.data2]>>
    ELSE IF status = 128 THEN
        <<[type |-> "kNoteOffEvent", sampleOffset |-> e.sample_offset,
           channel |-> e.channel, pitch |-> e.data1, velocity |-> e.data2]>>
    ELSE IF status = 160 THEN
        <<[type |-> "kPolyPressureEvent", sampleOffset |-> e.sample_offset,
           channel |-> e.channel, pitch |-> e.data1, pressure |-> e.data2]>>
    ELSE IF status = 176 THEN
        <<[type |-> "kLegacyMIDICCOutEvent", sampleOffset |-> e.sample_offset,
           channel |-> e.channel, controlNumber |-> e.data1, value |-> e.data2,
           value2 |-> 0]>>
    ELSE IF status = 192 THEN
        <<[type |-> "kLegacyMIDICCOutEvent", sampleOffset |-> e.sample_offset,
           channel |-> e.channel, controlNumber |-> 128, value |-> e.data1,
           value2 |-> 0]>>
    ELSE IF status = 208 THEN
        <<[type |-> "kLegacyMIDICCOutEvent", sampleOffset |-> e.sample_offset,
           channel |-> e.channel, controlNumber |-> 129, value |-> e.data1,
           value2 |-> 0]>>
    ELSE IF status = 224 THEN
        <<[type |-> "kLegacyMIDICCOutEvent", sampleOffset |-> e.sample_offset,
           channel |-> e.channel, controlNumber |-> 130, value |-> e.data1,
           value2 |-> 0]>>
    ELSE <<>>

VST3Translate(e) ==
    LET status == UpperNibble(e.status) IN
    IF status = 144 THEN
        <<[type |-> "kNoteOnEvent", sampleOffset |-> e.sample_offset,
           channel |-> e.channel, pitch |-> e.data1, velocity |-> e.data2]>>
    ELSE IF status = 128 THEN
        <<[type |-> "kNoteOffEvent", sampleOffset |-> e.sample_offset,
           channel |-> e.channel, pitch |-> e.data1, velocity |-> e.data2]>>
    ELSE IF status = 160 THEN
        <<[type |-> "kPolyPressureEvent", sampleOffset |-> e.sample_offset,
           channel |-> e.channel, pitch |-> e.data1, pressure |-> e.data2]>>
    ELSE IF status = 176 THEN
        <<[type |-> "kLegacyMIDICCOutEvent", sampleOffset |-> e.sample_offset,
           channel |-> e.channel, controlNumber |-> e.data1, value |-> e.data2,
           value2 |-> 0]>>
    ELSE IF status = 192 THEN
        <<[type |-> "kLegacyMIDICCOutEvent", sampleOffset |-> e.sample_offset,
           channel |-> e.channel, controlNumber |-> 128, value |-> e.data1,
           value2 |-> 0]>>
    ELSE IF status = 208 THEN
        <<[type |-> "kLegacyMIDICCOutEvent", sampleOffset |-> e.sample_offset,
           channel |-> e.channel, controlNumber |-> 129, value |-> e.data1,
           value2 |-> 0]>>
    ELSE IF status = 224 THEN
        <<[type |-> "kLegacyMIDICCOutEvent", sampleOffset |-> e.sample_offset,
           channel |-> e.channel, controlNumber |-> 130, value |-> e.data1,
           value2 |-> e.data2]>>
    ELSE <<>>

RECURSIVE VST3TranslateAll(_)
VST3TranslateAll(events) ==
    IF events = <<>> THEN <<>>
    ELSE VST3Translate(Head(events)) \o VST3TranslateAll(Tail(events))

VST3SendMidi(evNull, events) ==
    /\ backend = "VST3"
    /\ Len(input_events) + Len(events) <= MaxQueue
    /\ UNCHANGED <<plugVars, nativeVars, auFields, cfgFields, num_input_channels,
                   num_output_channels, parameters, presets, input_param_changes,
                   everInitOk>>
    /\ LET args == [evNull |-> evNull, events |-> events, event_count |-> Len(events)] IN
       IF evNull THEN
           /\ NoLog("send_midi", args, RACK_ERROR_INVALID_PARAM)
           /\ UNCHANGED input_events
       ELSE
           /\ op' = [name |-> "send_midi", a |-> args]
           /\ ret' = RACK_OK
           /\ calls' = <<>>
           /\ outv' = 0
           /\ written' = {}
           /\ oob' = FALSE
           /\ input_events' = input_events \o VST3TranslateAll(events)

\* ------------------------------------------------------------------ state
\* a run of bytes: `pad` leading bytes of bulk engine data that are counted
\* but not spelled out, then the bytes spelled out
Bytes(pad, bytes) == [pad |-> pad, bytes |-> bytes]

Size(b) == b.pad + Len(b.bytes)

\* the first n bytes of b, n at least the bulk
Take(b, n) == Bytes(b.pad, SubSeq(b.bytes, 1, n - b.pad))

Min(a, b) == IF a < b THEN a ELSE b

Max(a, b) == IF a > b THEN a ELSE b

\* a uint32_t as the bytes memcpy stores, least significant first
MarkerBytes(n) == [i \in 1..MarkerSize |-> (n \div (256 ^ (i - 1))) % 256]

MemoryStream(b) == [pad |-> b.pad, bytes |-> b.bytes, position |-> 0]

\* read: the bytes obtained (those of the bulk not spelled out), whether all
\* numBytes were there, and the stream advanced past what was read
MemoryStreamRead(stream, numBytes) ==
    LET available == Size(stream) - stream.position
        to_read == Min(numBytes, available)
        from == Max(stream.position - stream.pad, 0)
        upto == stream.position + to_read - stream.pad
    IN  [ok |-> to_read = numBytes,
         buffer |-> SubSeq(stream.bytes, from + 1, upto),
         stream |-> [stream EXCEPT !.position = @ + Max(to_read, 0)]]

\* write: at the current position, over what is there, growing the buffer
\* only when the write ends beyond it (the bulk is never written into)
MemoryStreamWrite(stream, buffer) ==
    LET at == stream.position - stream.pad
        size == Max(Len(stream.bytes), at + Len(buffer))
    IN  [stream EXCEPT
             !.bytes = [i \in 1..size |->
                           IF i > at /\ i <= at + Len(buffer) THEN buffer[i - at]
                           ELSE stream.bytes[i]],
             !.position = @ + Len(buffer)]

MemoryStreamSeek(stream, pos) ==
    [stream EXCEPT !.position = Max(0, Min(pos, Size(stream)))]

\* what the component serializes: its own data, and the parameter values
\* when it is its own controller
ComponentState ==
    Bytes(plugEngineState.pad,
          plugEngineState.bytes \o (IF ctrl = "same" THEN pvalue ELSE <<>>))

\* what a separate controller serializes: its parameter values
ControllerState == pvalue

\* the stream as the component's getState leaves it: its state written from
\* the start, the position wherever its last seek put it
ComponentGetState(seek) ==
    MemoryStreamSeek(
        MemoryStreamWrite([pad |-> ComponentState.pad, bytes |-> <<>>,
                           position |-> ComponentState.pad],
                          ComponentState.bytes),
        seek)

\* numbers of bytes a component may consume when it restores from a stream
ComponentReads(data) == data.pad..Size(data)

VST3GetStateSize ==
    /\ backend = "VST3"
    /\ KeepsHandle
    /\ UNCHANGED <<plugVars, nativeVars, auFields, vstFields, cfgFields, everInitOk,
                   state_data>>
    /\ op' = [name |-> "get_state_size", a |-> [x |-> 0]]
    /\ ret' = RACK_OK
    /\ calls' = <<>>
    /\ outv' = StateSizeHint
    /\ written' = {}
    /\ oob' = FALSE

BufferTooSmallMutant(state_size, size) == state_size >= size

\* state_size > *size
BufferTooSmall(state_size, size) == state_size > size

VST3GetState(arg, size, seek, fail) ==
    /\ backend = "VST3"
    /\ KeepsHandle
    /\ UNCHANGED <<plugVars, nativeVars, auFields, vstFields, cfgFields, everInitOk>>
    /\ op' = [name |-> "get_state", a |-> [arg |-> arg, size |-> size]]
    /\ written' = {}
    /\ oob' = FALSE
    /\ IF arg # "ok" \/ size = 0 THEN
           /\ ret' = RACK_ERROR_INVALID_PARAM
           /\ calls' = <<>>
           /\ outv' = IF arg = "size_null" THEN 0 ELSE size
           /\ UNCHANGED state_data
       ELSE IF fail = "component" THEN
           /\ ret' = RACK_ERROR_GENERIC
           /\ calls' = <<Call("component.getState")>>
           /\ outv' = size
           /\ UNCHANGED state_data
       ELSE
           LET component == ComponentGetState(seek)
               component_state_size == component.position
               marked == MemoryStreamWrite(component, MarkerBytes(component_state_size))
               separate == ctrl = "separate"
               stream == IF separate THEN MemoryStreamWrite(marked, ControllerState)
                         ELSE marked
               state_size == Size(stream)
           IN  /\ calls' = <<Call("component.getState")>>
                           \o (IF separate THEN <<Call("controller.getState")>> ELSE <<>>)
               /\ IF separate /\ fail = "controller" THEN
                      /\ ret' = RACK_ERROR_GENERIC
                      /\ outv' = size
                      /\ UNCHANGED state_data
                  ELSE IF BufferTooSmall(state_size, size) THEN
                      /\ ret' = RACK_ERROR_INVALID_PARAM
                      /\ outv' = state_size
                      /\ UNCHANGED state_data
                  ELSE
                      /\ ret' = RACK_OK
                      /\ outv' = state_size
                      /\ state_data' = Bytes(stream.pad, stream.bytes)

\* a controller restores its parameter values from the bytes at the position
ControllerSetState(stream) ==
    LET got == MemoryStreamRead(stream, Len(pvalue))
    IN  [ok |-> got.ok, values |-> IF got.ok THEN got.buffer ELSE pvalue]

\* a component that is its own controller restores its parameter values from
\* the bytes behind its own data, when it consumed that far
ComponentSetState(data, consumed) ==
    LET own == Len(plugEngineState.bytes)
        read == MemoryStreamRead(MemoryStream(data), consumed).buffer
    IN  IF ctrl = "same" /\ Len(read) >= own + Len(pvalue)
        THEN SubSeq(read, own + 1, own + Len(pvalue))
        ELSE pvalue

VST3SetState(dataNull, data, consumed, accepted) ==
    /\ backend = "VST3"
    /\ KeepsHandle
    /\ UNCHANGED <<plugVars, auFields, vstFields, cfgFields, nativeInit, active,
                   processing, busActive, heap, everInitOk, state_data>>
    /\ op' = [name |-> "set_state", a |-> [dataNull |-> dataNull, data |-> data]]
    /\ outv' = 0
    /\ written' = {}
    /\ oob' = FALSE
    /\ IF dataNull \/ Size(data) = 0 THEN
           /\ ret' = RACK_ERROR_INVALID_PARAM
           /\ calls' = <<>>
           /\ UNCHANGED pvalue
       ELSE IF ~accepted THEN
           /\ ret' = RACK_ERROR_GENERIC
           /\ calls' = <<[f |-> "component.setState", at |-> 0, ok |-> FALSE]>>
           /\ UNCHANGED pvalue
       ELSE
           LET restored == MemoryStreamRead(MemoryStream(data), consumed).stream
               marker == MemoryStreamRead(restored, MarkerSize)
               controller == ControllerSetState(marker.stream)
           IN  IF ctrl # "separate" THEN
                   /\ ret' = RACK_OK
                   /\ calls' = <<[f |-> "component.setState", at |-> 0, ok |-> TRUE]>>
                   /\ pvalue' = ComponentSetState(data, consumed)
               ELSE IF ~marker.ok THEN
                   /\ ret' = RACK_OK
                   /\ calls' = <<[f |-> "component.setState", at |-> 0, ok |-> TRUE]>>
                   /\ UNCHANGED pvalue
               ELSE
                   /\ ret' = IF controller.ok THEN RACK_OK ELSE RACK_ERROR_GENERIC
                   /\ calls' = <<[f |-> "component.setState", at |-> 0, ok |-> TRUE],
                                 [f |-> "controller.setState",
                                  at |-> marker.stream.position, ok |-> controller.ok]>>
                   /\ pvalue' = controller.values

\* the ClassInfo property list in binary form: a header that counts the
\* values, then the parameter values
AUClassInfo == <<Len(pvalue)>> \o pvalue

AUStateOutcomes == {"none", "AudioUnitGetProperty", "CFPropertyListCreateData"}

AUGetStateSize(outcome) ==
    /\ backend = "AU"
    /\ KeepsHandle
    /\ UNCHANGED <<plugVars, nativeVars, auFields, vstFields, cfgFields, everInitOk,
                   state_data>>
    /\ op' = [name |-> "get_state_size", a |-> [x |-> 0]]
    /\ ret' = RACK_OK
    /\ calls' = IF ~initialized THEN <<>>
                ELSE <<Call("AudioUnitGetProperty")>>
                     \o (IF outcome = "AudioUnitGetProperty" THEN <<>>
                         ELSE <<Call("CFPropertyListCreateData")>>)
    /\ outv' = IF initialized /\ outcome = "none" THEN Len(AUClassInfo) ELSE 0
    /\ written' = {}
    /\ oob' = FALSE

AUGetState(arg, size, outcome, st) ==
    /\ backend = "AU"
    /\ KeepsHandle
    /\ UNCHANGED <<plugVars, nativeVars, auFields, vstFields, cfgFields, everInitOk>>
    /\ op' = [name |-> "get_state", a |-> [arg |-> arg, size |-> size]]
    /\ written' = {}
    /\ oob' = FALSE
    /\ outv' = IF arg = "size_null" THEN 0
               ELSE IF initialized /\ arg = "ok" /\ outcome = "none"
                       /\ Len(AUClassInfo) <= size
               THEN Len(AUClassInfo) ELSE size
    /\ IF ~initialized THEN
           /\ ret' = RACK_ERROR_NOT_INITIALIZED
           /\ calls' = <<>>
           /\ UNCHANGED state_data
       ELSE IF arg # "ok" THEN
           /\ ret' = RACK_ERROR_INVALID_PARAM
           /\ calls' = <<>>
           /\ UNCHANGED state_data
       ELSE IF outcome = "AudioUnitGetProperty" THEN
           /\ ret' = RACK_AU_ERROR_AUDIO_UNIT + st
           /\ calls' = <<Call("AudioUnitGetProperty")>>
           /\ UNCHANGED state_data
       ELSE
           /\ calls' = <<Call("AudioUnitGetProperty"), Call("CFPropertyListCreateData")>>
           /\ IF outcome = "CFPropertyListCreateData" \/ Len(AUClassInfo) > size THEN
                  /\ ret' = RACK_ERROR_GENERIC
                  /\ UNCHANGED state_data
              ELSE
                  /\ ret' = RACK_OK
                  /\ state_data' = Bytes(0, AUClassInfo)

\* a property list parses when its header counts the values behind it
AUWellFormed(data) ==
    data.pad = 0 /\ Len(data.bytes) >= 1 /\ data.bytes[1] = Len(data.bytes) - 1

AUSetState(dataNull, data, accepted, st) ==
    /\ backend = "AU"
    /\ KeepsHandle
    /\ accepted => Len(data.bytes) = Len(pvalue) + 1
    /\ UNCHANGED <<plugVars, auFields, vstFields, cfgFields, nativeInit, active,
                   processing, busActive, heap, everInitOk, state_data>>
    /\ op' = [name |-> "set_state", a |-> [dataNull |-> dataNull, data |-> data]]
    /\ outv' = 0
    /\ written' = {}
    /\ oob' = FALSE
    /\ IF ~initialized THEN
           /\ ret' = RACK_ERROR_NOT_INITIALIZED
           /\ calls' = <<>>
           /\ UNCHANGED pvalue
       ELSE IF dataNull \/ Size(data) = 0 THEN
           /\ ret' = RACK_ERROR_INVALID_PARAM
           /\ calls' = <<>>
           /\ UNCHANGED pvalue
       ELSE IF ~AUWellFormed(data) THEN
           /\ ret' = RACK_ERROR_GENERIC
           /\ calls' = <<Call("CFPropertyListCreateWithData")>>
           /\ UNCHANGED pvalue
       ELSE
           /\ calls' = <<Call("CFPropertyListCreateWithData"),
                         [f |-> "AudioUnitSetProperty", ok |-> accepted]>>
           /\ IF accepted THEN
                  /\ ret' = RACK_OK
                  /\ pvalue' = SubSeq(data.bytes, 2, Len(data.bytes))
              ELSE
                  /\ ret' = RACK_AU_ERROR_AUDIO_UNIT + st
                  /\ UNCHANGED pvalue

\* ------------------------------------------------------------------- free
\* what each release call of free lets go of
Released(call) ==
    CASE call.f = "AudioComponentInstanceDispose" -> "audio_unit"
      [] call.f = "component_cp.disconnect" -> "component_cp"
      [] call.f = "controller_cp.disconnect" -> "controller_cp"
      [] call.f = "controller.terminate" -> "controller"
      [] call.f = "component.terminate" -> "component"
      [] call.f = "module.release" -> "module"
      [] call.f = "delete" -> "instance"
      [] call.f \in {"free", "operator delete"} -> call.block
      [] OTHER -> "none"

ReleasedBy(cs) == {Released(cs[i]) : i \in DOMAIN cs} \ {"none"}

FreeBlock(f, block) == [f |-> f, block |-> block]

AUFreeBufferListMutant(list, blocks) ==
    IF list
    THEN <<FreeBlock("operator delete", blocks[1]),
           FreeBlock("free", blocks[3])>>
    ELSE <<>>

\* the blocks free hands back for one buffer list: the samples of each of
\* its two channels, then the list
AUFreeBufferList(list, blocks) ==
    IF list
    THEN <<FreeBlock("operator delete", blocks[1]),
           FreeBlock("operator delete", blocks[2]),
           FreeBlock("free", blocks[3])>>
    ELSE <<>>

AUFreeCalls ==
    (IF audio_unit # "null"
     THEN <<Call("AudioUnitUninitialize"), Call("AudioComponentInstanceDispose")>>
     ELSE <<>>)
    \o AUFreeBufferList(input_buffer_list, <<"in_0", "in_1", "in_list">>)
    \o AUFreeBufferList(output_buffer_list, <<"out_0", "out_1", "out_list">>)
    \o (IF Len(parameter_ids) > 0 THEN <<FreeBlock("free", "parameter_ids")>> ELSE <<>>)
    \o (IF Len(parameter_info) > 0 THEN <<FreeBlock("free", "parameter_info")>> ELSE <<>>)
    \o <<Call("delete")>>

AUFree(pluginNull) ==
    /\ backend = "AU"
    /\ ~freed
    /\ UNCHANGED <<threadVars, scanVars>>
    /\ op' = [name |-> "free", a |-> [pluginNull |-> pluginNull]]
    /\ ret' = RACK_OK
    /\ outv' = 0
    /\ written' = {}
    /\ oob' = FALSE
    /\ UNCHANGED <<plugVars, auFields, vstFields, cfgFields, pvalue, active, processing,
                   busActive, everInitOk, state_data>>
    /\ IF pluginNull THEN
           /\ calls' = <<>>
           /\ UNCHANGED <<freed, natives, heap, nativeInit>>
       ELSE
           /\ calls' = AUFreeCalls
           /\ freed' = TRUE
           /\ natives' = natives \ ReleasedBy(AUFreeCalls)
           /\ heap' = heap \ ReleasedBy(AUFreeCalls)
           /\ nativeInit' = IF audio_unit # "null" THEN FALSE ELSE nativeInit

VST3FreeCalls ==
    (IF initialized THEN <<Call("setActive:false")>> ELSE <<>>)
    \o (IF {"component_cp", "controller_cp"} \subseteq natives
        THEN <<Call("component_cp.disconnect"), Call("controller_cp.disconnect")>>
        ELSE <<>>)
    \o (IF ctrl = "separate" THEN <<Call("controller.terminate")>> ELSE <<>>)
    \o <<Call("component.terminate"), Call("module.release"), Call("delete")>>

VST3Free(pluginNull) ==
    /\ backend = "VST3"
    /\ ~freed
    /\ UNCHANGED <<threadVars, scanVars>>
    /\ op' = [name |-> "free", a |-> [pluginNull |-> pluginNull]]
    /\ ret' = RACK_OK
    /\ outv' = 0
    /\ written' = {}
    /\ oob' = FALSE
    /\ UNCHANGED <<plugVars, auFields, vstFields, cfgFields, pvalue, nativeInit,
                   processing, busActive, heap, everInitOk, state_data>>
    /\ IF pluginNull THEN
           /\ calls' = <<>>
           /\ UNCHANGED <<freed, natives, active>>
       ELSE
           /\ calls' = VST3FreeCalls
           /\ freed' = TRUE
           /\ natives' = natives \ ReleasedBy(VST3FreeCalls)
           /\ active' = IF initialized THEN FALSE ELSE active

\* -------------------------------------------------------------------- new

\* the steps of a construction in the order the code takes them
AUNewSteps == <<"new", "parse_unique_id", "AudioComponentFindNext",
                "AudioComponentInstanceNew">>

\* what a step that succeeds brings to life
Creates(step) ==
    CASE step \in {"new", "nothrow_new"} -> {"instance"}
      [] step = "AudioComponentInstanceNew" -> {"audio_unit"}
      [] step = "Module::create" -> {"module"}
      [] step = "createInstance" -> {"component"}
      [] step = "createController" ->
             IF ctrl = "separate" THEN {"controller"} ELSE {}
      [] step = "connect" ->
             IF ctrl = "separate" THEN {"component_cp", "controller_cp"} ELSE {}
      [] OTHER -> {}

\* the steps passed before the construction stops at `outcome`; a null
\* argument is turned away before the first
Passed(steps, outcome) ==
    IF outcome \in {"null_id", "null_arg"} THEN <<>>
    ELSE IF \E k \in DOMAIN steps : steps[k] = outcome
    THEN SubSeq(steps, 1, (CHOOSE k \in DOMAIN steps : steps[k] = outcome) - 1)
    ELSE steps

\* the failure path that returns without deleting the instance
DeletedOnFailureMutant(created) == created \ {"instance"}

\* delete plugin on a failure path: the instance and, through its members'
\* destructors, every object it owns
DeletedOnFailure(created) == created

\* the fields of a fresh instance
FreshInstance ==
    /\ freed' = FALSE
    /\ nativeInit' = FALSE
    /\ active' = FALSE
    /\ processing' = FALSE
    /\ busActive' = {}
    /\ heap' = heap
    /\ pvalue' = [i \in 1..Len(plugRanges) |->
                     IF backend = "AU" THEN plugRanges[i][1] * NormOne ELSE 0]
    /\ audio_unit' = "valid"
    /\ initialized' = FALSE
    /\ sample_rate' = 0
    /\ max_block_size' = 0
    /\ input_buffer_list' = FALSE
    /\ output_buffer_list' = FALSE
    /\ current_input' = FALSE
    /\ sample_position' = 0
    /\ parameter_count' = 0
    /\ parameter_ids' = <<>>
    /\ parameter_info' = <<>>
    /\ num_input_channels' = 0
    /\ num_output_channels' = 0
    /\ parameters' = <<>>
    /\ presets' = <<>>
    /\ input_param_changes' = <<>>
    /\ input_events' = <<>>
    /\ everInitOk' = FALSE
    /\ state_data' = [pad |-> 0, bytes |-> <<>>]

\* new, called once the previous instance has been freed; outv is the pointer
\* returned (0: null)
NewInstance(args, steps, outcome) ==
    LET created == UNION {Creates(Passed(steps, outcome)[k]) :
                             k \in DOMAIN Passed(steps, outcome)}
    IN
    /\ freed
    /\ UNCHANGED <<plugVars, threadVars, scanVars>>
    /\ op' = [name |-> "new", a |-> args]
    /\ ret' = RACK_OK
    /\ calls' = [k \in DOMAIN Passed(steps, outcome) |-> Call(Passed(steps, outcome)[k])]
                \o (IF outcome \in {"ok", "null_id", "null_arg"} THEN <<>>
                    ELSE <<Call(outcome)>>)
    /\ written' = {}
    /\ oob' = FALSE
    /\ IF outcome = "ok" THEN
           /\ outv' = 1
           /\ natives' = natives \cup created
           /\ FreshInstance
       ELSE
           /\ outv' = 0
           /\ natives' = (natives \cup created) \ DeletedOnFailure(created)
           /\ UNCHANGED <<freed, nativeInit, active, processing, busActive, heap, pvalue,
                          auFields, vstFields, cfgFields, everInitOk, state_data>>

\* ------------------------------------------------------------ identifiers
\* strings are sequences of characters; a 32-bit value is the pair of its
\* 16-bit halves
HexChars == <<"0", "1", "2", "3", "4", "5", "6", "7", "8", "9",
              "A", "B", "C", "D", "E", "F">>

\* the value of a hexadecimal digit as %x reads it, -1 for any other character
HexValue(c) ==
    LET lower == <<"a", "b", "c", "d", "e", "f">> IN
    IF \E k \in 1..16 : HexChars[k] = c
    THEN (CHOOSE k \in 1..16 : HexChars[k] = c) - 1
    ELSE IF \E k \in 1..6 : lower[k] = c
    THEN (CHOOSE k \in 1..6 : lower[k] = c) + 9
    ELSE -1

\* snprintf("%08X-%08X-%08X", type, subtype, manufacturer)
CreateUniqueID(desc) ==
    LET Hex4(h) == [k \in 1..4 |-> HexChars[((h \div (16 ^ (4 - k))) % 16) + 1]]
        Hex8(v) == Hex4(v[1]) \o Hex4(v[2])
    IN  Hex8(desc.componentType) \o <<"-">> \o Hex8(desc.componentSubType)
        \o <<"-">> \o Hex8(desc.componentManufacturer)

\* one %x conversion of sscanf from position i: blanks are skipped, a sign and
\* a 0x prefix are accepted, then the longest run of hexadecimal digits (at
\* least one) is taken; `next` is the position behind it
ScanHex(s, i) ==
    LET end == Len(s) + 1
        First(S) == CHOOSE j \in S : \A k \in S : j <= k
        Last(from) == IF from > end THEN from ELSE end
        Signed(start) == start < end /\ s[start] \in {"+", "-"}
        Prefixed(p) == /\ p + 2 < end
                       /\ s[p] = "0"
                       /\ s[p + 1] \in {"x", "X"}
                       /\ HexValue(s[p + 2]) >= 0
        Value(padded, negative) ==
            LET hi == padded[1] * 4096 + padded[2] * 256 + padded[3] * 16 + padded[4]
                lo == padded[5] * 4096 + padded[6] * 256 + padded[7] * 16 + padded[8]
            IN  IF ~negative THEN <<hi, lo>>
                ELSE IF lo = 0 THEN <<(65536 - hi) % 65536, 0>>
                ELSE <<65535 - hi, 65536 - lo>>
    IN  CHOOSE r \in UNION UNION UNION {{{{
            [ok |-> stop > q,
             next |-> stop,
             value |-> Value([k \in 1..8 |-> IF k + Len(digits) <= 8 THEN 0
                                             ELSE digits[k + Len(digits) - 8]],
                             Signed(start) /\ s[start] = "-")] :
                digits \in {[k \in 1..(stop - q) |-> HexValue(s[q + k - 1])]}} :
                stop \in {First({j \in q..(end - 1) : HexValue(s[j]) < 0}
                                \cup {Last(q)})}} :
                q \in {IF Prefixed(IF Signed(start) THEN start + 1 ELSE start)
                       THEN (IF Signed(start) THEN start + 1 ELSE start) + 2
                       ELSE (IF Signed(start) THEN start + 1 ELSE start)}} :
                start \in {First({j \in i..(end - 1) : s[j] # " "} \cup {Last(i)})}} : TRUE

\* sscanf(unique_id, "%x-%x-%x", ...) == 3 and the description it fills in
parse_unique_id(unique_id) ==
    LET Dash(at) == at <= Len(unique_id) /\ unique_id[at] = "-" IN
    CHOOSE r \in UNION UNION {{{
        IF /\ type.ok /\ Dash(type.next)
           /\ subtype.ok /\ Dash(subtype.next)
           /\ manufacturer.ok
        THEN [ok |-> TRUE,
              desc |-> [componentType |-> type.value,
                        componentSubType |-> subtype.value,
                        componentManufacturer |-> manufacturer.value]]
        ELSE [ok |-> FALSE, desc |-> <<>>] :
            manufacturer \in {ScanHex(unique_id, subtype.next + 1)}} :
            subtype \in {ScanHex(unique_id, type.next + 1)}} :
            type \in {ScanHex(unique_id, 1)}} : TRUE

\* rack_au_plugin_new on an identifier; `found` is how far the construction
\* gets once the identifier has parsed
AUNew(unique_id, found) ==
    /\ backend = "AU"
    /\ \E parsed \in {parse_unique_id(unique_id)} :
       \E outcome \in {IF parsed.ok THEN found ELSE "parse_unique_id"} :
           NewInstance([outcome |-> outcome, unique_id |-> unique_id,
                        desc |-> parsed.desc], AUNewSteps, outcome)

\* component descriptions: zero, 'aufx', all ones, a small number
Descriptions ==
    LET values == {<<0, 0>>, <<24949, 26232>>, <<65535, 65535>>, <<0, 31>>} IN
    [componentType : values, componentSubType : values, componentManufacturer : values]

\* ---------------------------------------------------------------- presets
\* AU: the factory preset array is asked of the AudioUnit on every call;
\* `answered` is whether the property query returns noErr and an array
AUGetPresetCount(answered) ==
    /\ backend = "AU"
    /\ KeepsHandle
    /\ UNCHANGED <<plugVars, nativeVars, auFields, vstFields, cfgFields, everInitOk,
                   state_data>>
    /\ op' = [name |-> "get_preset_count", a |-> [x |-> 0]]
    /\ ret' = RACK_OK
    /\ written' = {}
    /\ oob' = FALSE
    /\ IF ~initialized THEN
           /\ calls' = <<>>
           /\ outv' = 0
       ELSE
           /\ calls' = <<[f |-> "AudioUnitGetProperty:FactoryPresets", ok |-> answered]>>
           /\ outv' = IF answered THEN plugPrograms ELSE 0

AUGetPresetInfo(index, argNull, answered) ==
    /\ backend = "AU"
    /\ KeepsHandle
    /\ UNCHANGED <<plugVars, nativeVars, auFields, vstFields, cfgFields, state_data>>
    /\ LET args == [index |-> index, argNull |-> argNull]
           query == <<[f |-> "AudioUnitGetProperty:FactoryPresets", ok |-> answered]>>
       IN
       IF ~initialized THEN
           NoLog("get_preset_info", args, RACK_ERROR_NOT_INITIALIZED)
       ELSE IF argNull THEN
           NoLog("get_preset_info", args, RACK_ERROR_INVALID_PARAM)
       ELSE IF ~answered THEN
           /\ Log("get_preset_info", args, RACK_ERROR_NOT_FOUND, query)
           /\ UNCHANGED everInitOk
       ELSE IF index >= plugPrograms THEN
           /\ Log("get_preset_info", args, RACK_ERROR_INVALID_PARAM, query)
           /\ UNCHANGED everInitOk
       ELSE
           /\ op' = [name |-> "get_preset_info", a |-> args]
           /\ ret' = RACK_OK
           /\ calls' = query
           /\ outv' = index
           /\ written' = {}
           /\ oob' = FALSE
           /\ UNCHANGED everInitOk

\* the range of OSStatus and of the int the functions return
Int32Max == (2 ^ 15 - 1) * 2 ^ 16 + (2 ^ 16 - 1)

\* RACK_AU_ERROR_AUDIO_UNIT + status in int arithmetic: signed overflow is
\* undefined, the build wraps around or, built with overflow trapping, aborts
AUStatusCodes(status) ==
    IF status < (-Int32Max - 1) - RACK_AU_ERROR_AUDIO_UNIT
    THEN {[code |-> (status - (-Int32Max - 1))
                    + (Int32Max + RACK_AU_ERROR_AUDIO_UNIT + 1),
           abort |-> FALSE],
          [code |-> RACK_OK, abort |-> TRUE]}
    ELSE {[code |-> RACK_AU_ERROR_AUDIO_UNIT + status, abort |-> FALSE]}

\* AU: one property write; the values the AudioUnit then gives its
\* parameters are its own
AULoadPreset(preset_number, status) ==
    /\ backend = "AU"
    /\ KeepsHandle
    /\ UNCHANGED <<plugVars, nativeVars, auFields, vstFields, cfgFields, state_data>>
    /\ LET args == [preset_number |-> preset_number] IN
       IF ~initialized THEN
           NoLog("load_preset", args, RACK_ERROR_NOT_INITIALIZED)
       ELSE
           LET native == [f |-> "AudioUnitSetProperty:PresentPreset",
                          ok |-> status = noErr, status |-> status]
           IN
           \E result \in IF status # noErr THEN AUStatusCodes(status)
                         ELSE {[code |-> RACK_OK, abort |-> FALSE]} :
               /\ Log("load_preset", args, IF result.abort THEN ret ELSE result.code,
                      IF result.abort THEN <<native, [f |-> "abort"]>> ELSE <<native>>)
               /\ UNCHANGED everInitOk

VST3GetPresetCount ==
    /\ backend = "VST3"
    /\ KeepsHandle
    /\ UNCHANGED <<plugVars, nativeVars, auFields, vstFields, cfgFields, everInitOk,
                   state_data>>
    /\ op' = [name |-> "get_preset_count", a |-> [x |-> 0]]
    /\ ret' = RACK_OK
    /\ calls' = <<>>
    /\ outv' = IF ~initialized THEN 0 ELSE Len(presets)
    /\ written' = {}
    /\ oob' = FALSE

VST3GetPresetInfo(index, argNull) ==
    /\ backend = "VST3"
    /\ KeepsHandle
    /\ UNCHANGED <<plugVars, nativeVars, auFields, vstFields, cfgFields, everInitOk,
                   state_data>>
    /\ op' = [name |-> "get_preset_info", a |-> [index |-> index, argNull |-> argNull]]
    /\ ret' = IF ~initialized \/ argNull THEN RACK_ERROR_INVALID_PARAM
              ELSE IF index >= Len(presets) THEN RACK_ERROR_NOT_FOUND
              ELSE RACK_OK
    /\ calls' = <<>>
    /\ outv' = IF initialized /\ ~argNull /\ index < Len(presets) THEN index ELSE 0
    /\ written' = {}
    /\ oob' = FALSE

\* the attempts a loop makes: it returns at the first one that succeeds
UpToFirstOkMutant(attempts) == attempts

UpToFirstOk(attempts) ==
    IF \E k \in 1..Len(attempts) : attempts[k].ok
    THEN SubSeq(attempts, 1,
                CHOOSE k \in 1..Len(attempts) :
                    attempts[k].ok /\ \A j \in 1..(k - 1) : ~attempts[j].ok)
    ELSE attempts

Succeeded(attempts) == \E k \in 1..Len(attempts) : attempts[k].ok

\* the value the program-selector fallback writes: program_index / stepCount
\* clamped to [0,1] (0/0 is NaN, which the clamp turns into 1.0)
ProgramValue(program_index, stepCount) ==
    IF stepCount = 0 THEN NormOne
    ELSE Min(NormOne, (program_index * NormOne) \div stepCount)

\* what the plugin offers a load: the answer of its program-data interface
\* ("none": it has no such interface), its program-selector parameters in
\* index order with their step counts and whether each accepts a write, and
\* for each unit on the preset's program list whether selecting it succeeds
VST3LoadPreset(preset_number, program_data, selectors, units) ==
    /\ backend = "VST3"
    /\ KeepsHandle
    /\ UNCHANGED <<plugVars, auFields, cfgFields, nativeInit, active, processing,
                   busActive, heap, num_input_channels, num_output_channels,
                   parameters, presets, input_events, everInitOk, state_data>>
    /\ LET args == [preset_number |-> preset_number] IN
       IF ~initialized \/ ctrl = "none" THEN
           /\ NoLog("load_preset", args, RACK_ERROR_NOT_INITIALIZED)
           /\ UNCHANGED <<pvalue, input_param_changes>>
       ELSE IF preset_number < 0 \/ preset_number >= Len(presets) THEN
           /\ NoLog("load_preset", args, RACK_ERROR_NOT_FOUND)
           /\ UNCHANGED <<pvalue, input_param_changes>>
       ELSE IF plugPrograms = 0 THEN
           /\ NoLog("load_preset", args, RACK_ERROR_GENERIC)
           /\ UNCHANGED <<pvalue, input_param_changes>>
       ELSE
           LET preset == presets[preset_number + 1]
               byData ==
                   IF program_data = "none" THEN <<>>
                   ELSE IF program_data = "get_fail"
                   THEN <<[f |-> "getProgramData", ok |-> FALSE]>>
                   ELSE <<[f |-> "getProgramData", ok |-> TRUE],
                          [f |-> "setProgramData", ok |-> program_data = "ok"]>>
               InRange(sel) == preset.program_index <= sel.stepCount
               Write(sel) == [f |-> "setParamNormalized", ok |-> sel.accepted,
                              id |-> sel.id, stepCount |-> sel.stepCount,
                              value |-> ProgramValue(preset.program_index, sel.stepCount)]
           IN
           \E usable \in {SelectSeq(selectors, InRange)} :
           \E bySelector \in
                  {IF program_data = "ok" THEN <<>>
                   ELSE UpToFirstOk([k \in 1..Len(usable) |-> Write(usable[k])])} :
           \E byUnit \in
                  {IF program_data = "ok" \/ Succeeded(bySelector) THEN <<>>
                   ELSE UpToFirstOk([k \in 1..Len(units) |->
                                        [f |-> "selectUnit", ok |-> units[k]]])} :
           /\ op' = [name |-> "load_preset", a |-> args]
           /\ ret' = IF program_data = "ok" \/ Succeeded(bySelector) \/ Succeeded(byUnit)
                     THEN RACK_OK ELSE RACK_ERROR_GENERIC
           /\ calls' = byData \o bySelector \o byUnit
           /\ outv' = 0
           /\ written' = {}
           /\ oob' = FALSE
           /\ IF Succeeded(bySelector) THEN
                  LET write == bySelector[Len(bySelector)] IN
                  /\ pvalue' = NativeStore(write.id, write.value)
                  /\ input_param_changes' =
                         AddPoint(input_param_changes, write.id, write.value)
              ELSE
                  UNCHANGED <<pvalue, input_param_changes>>

\* the selector parameters a plugin may have: any of its parameters, in index
\* order, each a switch (one step) or flagged as program change without steps,
\* and accepting the write or not
Selectors ==
    LET One(i) == {[id |-> i, stepCount |-> 0, accepted |-> TRUE],
                   [id |-> i, stepCount |-> 1, accepted |-> TRUE],
                   [id |-> i, stepCount |-> 1, accepted |-> FALSE]}
        n == Len(pvalue)
    IN UNION {{<<>>},
              UNION {{<<x>> : x \in One(i)} : i \in 1..n},
              UNION {{<<x, y>> : x \in One(i), y \in One(j)} :
                        <<i, j>> \in {q \in (1..n) \X (1..n) : q[1] < q[2]}}}

\* the load reaches the plugin only for a preset of the cache
Cached(preset_number) ==
    initialized /\ ctrl # "none" /\ preset_number \in 0..(Len(presets) - 1)


\* ---------------------------------------------------------------- threads
\* the steps of each function in the order the code makes them: native calls
\* by name, "lock" and "unlock" where the function's lock_guard is taken and
\* goes out of scope
\* initialize leaving through its error return with the lock still taken
AUStepsMutant(fn, ok) ==
    CASE fn = "new" ->
             <<"lock", "AudioComponentInstanceNew", "unlock">>
      [] fn = "initialize" ->
             <<"AudioUnitSetProperty", "lock", "AudioUnitInitialize">>
             \o (IF ok THEN <<"unlock", "AudioUnitGetProperty">> ELSE <<>>)
      [] fn = "process" ->
             <<"AudioUnitRender">>
      [] fn = "free" ->
             <<"lock", "AudioUnitUninitialize", "AudioComponentInstanceDispose",
               "unlock">>

AUSteps(fn, ok) ==
    CASE fn = "new" ->
             <<"lock", "AudioComponentInstanceNew", "unlock">>
      [] fn = "initialize" ->
             <<"AudioUnitSetProperty", "lock", "AudioUnitInitialize", "unlock">>
             \o (IF ok THEN <<"AudioUnitGetProperty">> ELSE <<>>)
      [] fn = "process" ->
             <<"AudioUnitRender">>
      [] fn = "free" ->
             <<"lock", "AudioUnitUninitialize", "AudioComponentInstanceDispose",
               "unlock">>

VST3StepsMutant(fn, ok, was_initialized) ==
    CASE fn = "new" ->
             <<"lock", "Module::create">>
             \o (IF ok THEN <<"createInstance", "component.initialize">> ELSE <<>>)
             \o <<"unlock">>
      [] fn = "initialize" ->
             <<"lock", "setupProcessing", "activateBus", "setActive", "setProcessing">>
             \o (IF ok THEN <<>> ELSE <<"setActive">>)
             \o <<"unlock">>
      [] fn = "reset" ->
             <<"lock">>
             \o (IF was_initialized THEN <<"setActive", "setActive">> ELSE <<>>)
             \o <<"unlock">>
      [] fn = "process" ->
             IF was_initialized THEN <<"lock", "process", "unlock">> ELSE <<>>
      [] fn = "free" ->
             <<"lock">>
             \o (IF was_initialized THEN <<"setActive">> ELSE <<>>)
             \o <<"disconnect", "terminate", "unlock">>

VST3Steps(fn, ok, was_initialized) ==
    CASE fn = "new" ->
             <<"lock", "Module::create">>
             \o (IF ok THEN <<"createInstance", "component.initialize">> ELSE <<>>)
             \o <<"unlock">>
      [] fn = "initialize" ->
             <<"lock", "setupProcessing", "activateBus", "setActive", "setProcessing">>
             \o (IF ok THEN <<>> ELSE <<"setActive">>)
             \o <<"unlock">>
      [] fn = "reset" ->
             <<"lock">>
             \o (IF was_initialized THEN <<"setActive", "setActive">> ELSE <<>>)
             \o <<"unlock">>
      [] fn = "process" ->
             IF was_initialized THEN <<"process">> ELSE <<>>
      [] fn = "free" ->
             <<"lock">>
             \o (IF was_initialized THEN <<"setActive">> ELSE <<>>)
             \o <<"disconnect", "terminate", "unlock">>

\* the native calls that create, activate, deactivate or dispose
LifecycleNatives ==
    {"AudioComponentInstanceNew", "AudioUnitInitialize", "AudioUnitUninitialize",
     "AudioComponentInstanceDispose", "Module::create", "component.initialize",
     "setActive", "terminate"}

\* a thread enters a function on its own instance
ThreadCall(t, b, fn, ok) ==
    /\ thread_fn[t] = "idle"
    /\ fn \in IF thread_backend[t] = "none" THEN {"new"}
             ELSE IF b = "AU"
             THEN (IF thread_initialized[t] THEN {"process"} ELSE {"initialize"})
                  \cup {"free"}
             ELSE {"initialize", "reset", "process", "free"}
    /\ thread_backend[t] \in {"none", b}
    /\ fn \in {"reset", "process", "free"} => ok
    /\ thread_fn' = [thread_fn EXCEPT ![t] = fn]
    /\ thread_ok' = [thread_ok EXCEPT ![t] = ok]
    /\ thread_at' = [thread_at EXCEPT ![t] = "enter"]
    /\ thread_steps' =
          [thread_steps EXCEPT
              ![t] = IF b = "AU" THEN AUSteps(fn, ok)
                     ELSE VST3Steps(fn, ok, thread_initialized[t])]
    /\ thread_backend' = [thread_backend EXCEPT ![t] = b]
    /\ UNCHANGED <<thread_initialized, g_audio_unit_cleanup_mutex,
                   g_vst3_lifecycle_mutex>>
    /\ UNCHANGED <<plugVars, nativeVars, handleVars, auFields, vstFields, cfgFields,
                   logVars, state_data, scanVars>>

\* the mutex after a thread moves on to step `next`
Mutex(holder, mine, t, next) ==
    IF ~mine THEN holder
    ELSE IF next = "lock" THEN t
    ELSE IF next = "unlock" THEN "free"
    ELSE holder

\* a thread finishes the step it is executing and starts the next one, or
\* returns; it starts "lock" only when its backend's mutex is free
ThreadStep(t) ==
    /\ thread_fn[t] # "idle"
    /\ LET next == IF thread_steps[t] = <<>> THEN "return" ELSE Head(thread_steps[t])
           au == thread_backend[t] = "AU"
           gone == thread_fn[t] = "free" \/ (thread_fn[t] = "new" /\ ~thread_ok[t])
       IN
       /\ next = "lock" =>
             IF au THEN g_audio_unit_cleanup_mutex = "free"
             ELSE g_vst3_lifecycle_mutex = "free"
       /\ g_audio_unit_cleanup_mutex' = Mutex(g_audio_unit_cleanup_mutex, au, t, next)
       /\ g_vst3_lifecycle_mutex' = Mutex(g_vst3_lifecycle_mutex, ~au, t, next)
       /\ thread_at' = [thread_at EXCEPT ![t] = IF next = "return" THEN "idle" ELSE next]
       /\ thread_steps' = [thread_steps EXCEPT ![t] = IF next = "return" THEN <<>>
                                                      ELSE Tail(@)]
       /\ thread_fn' = [thread_fn EXCEPT ![t] = IF next = "return" THEN "idle" ELSE @]
       /\ thread_ok' = [thread_ok EXCEPT ![t] = IF next = "return" THEN TRUE ELSE @]
       /\ thread_backend' =
             [thread_backend EXCEPT ![t] = IF next = "return" /\ gone THEN "none" ELSE @]
       /\ thread_initialized' =
             [thread_initialized EXCEPT
                 ![t] = IF next # "return" THEN @
                        ELSE IF thread_fn[t] = "initialize" THEN @ \/ thread_ok[t]
                        ELSE IF gone THEN FALSE
                        ELSE @]
    /\ UNCHANGED <<plugVars, nativeVars, handleVars, auFields, vstFields, cfgFields,
                   logVars, state_data, scanVars>>

\* ---------------------------------------------------------------- scanner
\* a plug-in is installed or removed; `described` is whether enumeration gets
\* to it (AU: AudioComponentGetDescription succeeds; VST3: its module loads
\* and the class is an audio effect), `named` whether AudioComponentCopyName
\* gives its name
Install(comp) ==
    /\ Len(installed) < MaxInstalled
    /\ installed' = Append(installed, comp)
    /\ UNCHANGED <<plugVars, nativeVars, handleVars, auFields, vstFields, cfgFields,
                   logVars, state_data, threadVars, components>>

\* the enumeration loop of rack_au_scanner_scan from component i on
RECURSIVE AUScanFrom(_, _, _, _, _)
AUScanFrom(found, i, count_only, max_plugins, acc) ==
    IF i > Len(found) THEN acc
    ELSE IF ~found[i].described THEN
        AUScanFrom(found, i + 1, count_only, max_plugins, acc)
    ELSE IF count_only THEN
        AUScanFrom(found, i + 1, count_only, max_plugins,
                   [acc EXCEPT !.components = Append(@, i), !.count = @ + 1])
    ELSE IF acc.count >= max_plugins THEN
        AUScanFrom(found, i + 1, count_only, max_plugins, [acc EXCEPT !.count = @ + 1])
    ELSE IF ~found[i].named THEN
        AUScanFrom(found, i + 1, count_only, max_plugins, acc)
    ELSE
        AUScanFrom(found, i + 1, count_only, max_plugins,
                   [acc EXCEPT !.wrote = @ \cup {acc.count},
                               !.components = Append(@, i), !.count = @ + 1])

\* the class loop of rack_vst3_scanner_scan from class i on
RECURSIVE VST3ScanFrom(_, _, _, _, _)
VST3ScanFrom(found, i, count_only, max_plugins, acc) ==
    IF i > Len(found) THEN acc
    ELSE IF ~found[i].described THEN
        VST3ScanFrom(found, i + 1, count_only, max_plugins, acc)
    ELSE IF count_only \/ acc.count >= max_plugins THEN
        VST3ScanFrom(found, i + 1, count_only, max_plugins, [acc EXCEPT !.count = @ + 1])
    ELSE
        VST3ScanFrom(found, i + 1, count_only, max_plugins,
                     [acc EXCEPT !.wrote = @ \cup {acc.count}, !.count = @ + 1])

AUScannerScan(scannerNull, plugins, max_plugins) ==
    /\ backend = "AU"
    /\ UNCHANGED <<plugVars, nativeVars, handleVars, auFields, vstFields, cfgFields,
                   everInitOk, state_data, threadVars, installed>>
    /\ LET args == [scannerNull |-> scannerNull, plugins |-> plugins,
                    max_plugins |-> max_plugins]
           r == AUScanFrom(installed, 1, plugins = "null", max_plugins,
                           [count |-> 0, wrote |-> {}, components |-> <<>>])
       IN
       IF scannerNull THEN
           /\ NoLog("scan", args, RACK_ERROR_INVALID_PARAM)
           /\ UNCHANGED components
       ELSE
           /\ op' = [name |-> "scan", a |-> args]
           /\ ret' = r.count
           /\ calls' = <<>>
           /\ outv' = 0
           /\ written' = {<<1, k>> : k \in r.wrote}
           /\ oob' = FALSE
           /\ components' = r.components

VST3ScannerScan(scannerNull, plugins, max_plugins) ==
    /\ backend = "VST3"
    /\ UNCHANGED <<plugVars, nativeVars, handleVars, auFields, vstFields, cfgFields,
                   everInitOk, state_data, threadVars, scanVars>>
    /\ LET args == [scannerNull |-> scannerNull, plugins |-> plugins,
                    max_plugins |-> max_plugins]
           r == VST3ScanFrom(installed, 1, plugins = "null", max_plugins,
                             [count |-> 0, wrote |-> {}])
       IN
       IF scannerNull THEN
           NoLog("scan", args, RACK_ERROR_INVALID_PARAM)
       ELSE
           /\ op' = [name |-> "scan", a |-> args]
           /\ ret' = r.count
           /\ calls' = <<>>
           /\ outv' = 0
           /\ written' = {<<1, k>> : k \in r.wrote}
           /\ oob' = FALSE

\* ----------------------------------------------------------- specification
InitializeOf(rates) ==
    /\ KeepsHandle
    /\ UNCHANGED state_data
    /\ \E args \in rates :
           \/ \E outcome \in AUInitOutcomes :
                  AUInitialize(args[1], args[2], outcome, nativeError)
           \/ \E fail \in {"none", "setupProcessing", "setActive", "setProcessing"} :
                  VST3Initialize(args[1], args[2], fail)

Initialize == InitializeOf({<<44100, MaxBlock - 1>>, <<48000, MaxBlock>>})

Reset ==
    /\ KeepsHandle
    /\ UNCHANGED state_data
    /\ \E reactivated \in BOOLEAN : VST3Reset(reactivated)

ProcessOf(buffers, frameCounts) ==
    /\ KeepsHandle
    /\ UNCHANGED state_data
    /\ \E bufs \in buffers, frames \in frameCounts :
           \/ AUProcess(bufs, frames)
           \/ \E ch \in {<<0, 2>>, <<2, 2>>, <<1, 1>>, <<2, 1>>} :
                  VST3Process(bufs, ch[1], ch[2], frames)

SetParameterOf(indices, values) ==
    /\ KeepsHandle
    /\ UNCHANGED state_data
    /\ \E index \in indices, v \in values :
           \/ AUSetParameter(index, v)
           \/ VST3SetParameter(index, v)

GetParameterOf(indices, nulls) ==
    /\ KeepsHandle
    /\ UNCHANGED state_data
    /\ \E index \in indices, valueNull \in nulls :
           \/ AUGetParameter(index, valueNull)
           \/ VST3GetParameter(index, valueNull)

SendMidiOf(nulls, batches) ==
    /\ KeepsHandle
    /\ UNCHANGED state_data
    /\ \E evNull \in nulls, events \in batches :
           \/ AUSendMidi(evNull, events)
           \/ VST3SendMidi(evNull, events)

\* the whole API, driven with every audio and MIDI input and one parameter write
Process == ProcessOf({"ok", "in_null", "out_null"}, FrameCounts)
SetOneParameter == SetParameterOf({0}, {1})
GetOneParameter == GetParameterOf({0}, {FALSE})

Next ==
    \/ Initialize
    \/ Reset
    \/ Process
    \/ SendMidiOf(BOOLEAN, MidiBatches)
    \/ SetOneParameter
    \/ GetOneParameter

Spec == Init /\ [][Next]_vars

ProcessOneFrame == ProcessOf({"ok"}, {1})

\* the parameter API driven with every parameter input, between blocks of one frame
NextParameters ==
    \/ Initialize
    \/ Reset
    \/ SetParameterOf(0..MaxParams, {-1, 1, NormOne, NormOne + 1})
    \/ GetParameterOf(0..MaxParams, BOOLEAN)
    \/ ProcessOneFrame

SpecParameters == Init /\ [][NextParameters]_vars

\* buffer sizes a caller passes: none, a small one, the one it was just told;
\* positions a component may leave the stream at after writing its state
GetState ==
    \E arg \in {"ok", "data_null", "size_null"},
       size \in {0, 2} \cup (IF op.name \in {"get_state_size", "get_state"}
                            THEN {outv} ELSE {}) :
        \/ \E seek \in ComponentState.pad..Size(ComponentState),
              fail \in {"none", "component", "controller"} :
               VST3GetState(arg, size, seek, fail)
        \/ \E outcome \in AUStateOutcomes : AUGetState(arg, size, outcome, nativeError)

\* blobs a caller restores from: the one get_state filled, its part before
\* the length marker, nothing
SetState ==
    \E dataNull \in BOOLEAN, accepted \in BOOLEAN,
       data \in {state_data, Bytes(0, <<>>)}
                \cup (IF backend = "VST3" /\ Size(state_data) >= Size(ComponentState)
                      THEN {Take(state_data, Size(ComponentState))} ELSE {}) :
        \/ \E consumed \in ComponentReads(data) :
               VST3SetState(dataNull, data, consumed, accepted)
        \/ AUSetState(dataNull, data, accepted, nativeError)

\* the state API on an instance whose first parameter is written in between
NextState ==
    \/ Initialize
    \/ SetOneParameter
    \/ GetOneParameter
    \/ (\/ VST3GetStateSize
        \/ \E outcome \in AUStateOutcomes : AUGetStateSize(outcome))
    \/ GetState
    \/ SetState

SpecState == Init /\ [][NextState]_vars

\* the life of a handle up to its release
FreeInstance == \E pluginNull \in BOOLEAN : AUFree(pluginNull) \/ VST3Free(pluginNull)

NextLifecycle ==
    \/ Initialize
    \/ Reset
    \/ ProcessOneFrame
    \/ FreeInstance

SpecLifecycle == Init /\ [][NextLifecycle]_vars

\* instances constructed, initialized and freed one after the other; a
\* construction gets as far as the first step that fails, or to "ok"
NextConstruct ==
    \/ \E outcome \in {"null_id", "parse_unique_id", "AudioComponentFindNext",
                       "AudioComponentInstanceNew", "ok"} :
           backend = "AU" /\ NewInstance([outcome |-> outcome], AUNewSteps, outcome)
    \/ \E outcome \in {"null_arg", "nothrow_new", "string_to_uid", "Module::create",
                       "createInstance", "cast_processor", "component.initialize", "ok"} :
           /\ backend = "VST3"
           /\ NewInstance([outcome |-> outcome],
                          <<"nothrow_new", "string_to_uid", "Module::create",
                            "createInstance", "cast_processor", "component.initialize",
                            "createController", "connect">>,
                          outcome)
    \/ InitializeOf({<<44100, MaxBlock - 1>>})
    \/ FreeInstance

SpecConstruct == Init /\ [][NextConstruct]_vars

\* two threads, each creating, driving and freeing instances of its own
NextThreads ==
    \/ \E t \in Threads, b \in {"AU", "VST3"},
          fn \in {"new", "initialize", "reset", "process", "free"}, ok \in BOOLEAN :
           ThreadCall(t, b, fn, ok)
    \/ \E t \in Threads : ThreadStep(t)

SpecThreads == Init /\ [][NextThreads]_vars

\* the same under fair scheduling: a thread inside a function that can take
\* its next step again and again, waiting for a mutex included, takes it
SpecThreadsFair == SpecThreads /\ \A t \in Threads : SF_vars(ThreadStep(t))

\* the preset queries, among the calls that may come between them
NextPresets ==
    \/ Initialize
    \/ Reset
    \/ SetOneParameter
    \/ \E answered \in BOOLEAN : AUGetPresetCount(answered)
    \/ VST3GetPresetCount
    \/ \E index \in 0..MaxPresets, argNull \in BOOLEAN, answered \in BOOLEAN :
           AUGetPresetInfo(index, argNull, answered)
    \/ \E index \in 0..MaxPresets, argNull \in BOOLEAN :
           VST3GetPresetInfo(index, argNull)

SpecPresets == Init /\ [][NextPresets]_vars

\* an AudioUnit call failing with statuses from all over the range of OSStatus
NextStatus ==
    \/ InitializeOf({<<44100, MaxBlock - 1>>})
    \/ \E preset_number \in 0..MaxPresets,
          status \in {-Int32Max - 1, -Int32Max,
                      (-Int32Max - 1) - RACK_AU_ERROR_AUDIO_UNIT - 1,
                      (-Int32Max - 1) - RACK_AU_ERROR_AUDIO_UNIT,
                      kAudioUnitErr_TooManyFramesToProcess,
                      nativeError, noErr, 1, Int32Max}
                     \cup {RACK_OK - RACK_AU_ERROR_AUDIO_UNIT + d : d \in -5..1} :
           AULoadPreset(preset_number, status)

SpecStatus == Init /\ [][NextStatus]_vars

\* loading presets of an initialized instance; the plugin is asked only what
\* the load gets to ask
NextLoadPreset ==
    \/ InitializeOf({<<44100, MaxBlock - 1>>})
    \/ \E preset_number \in -1..MaxPresets, status \in NativeStatus :
           AULoadPreset(preset_number, status)
    \/ \E preset_number \in -1..MaxPresets :
       \E program_data \in IF Cached(preset_number)
                           THEN {"none", "get_fail", "set_fail", "ok"} ELSE {"none"} :
       \E selectors \in IF Cached(preset_number) /\ program_data # "ok"
                        THEN Selectors ELSE {<<>>} :
       \E units \in IF Cached(preset_number) /\ program_data # "ok"
                       /\ \A k \in DOMAIN selectors : ~selectors[k].accepted
                    THEN UNION {[1..k -> BOOLEAN] : k \in 0..MaxUnits} ELSE {<<>>} :
           VST3LoadPreset(preset_number, program_data, selectors, units)

SpecLoadPreset == Init /\ [][NextLoadPreset]_vars

\* the scanners over plug-ins that come and go; max_plugins is the size of
\* the array the caller passes
NextScan ==
    \/ \E comp \in [described : BOOLEAN, named : BOOLEAN] : Install(comp)
    \/ (/\ installed # <<>>                      \* a plug-in is removed
        /\ installed' = Tail(installed)
        /\ UNCHANGED <<plugVars, nativeVars, handleVars, auFields, vstFields, cfgFields,
                       logVars, state_data, threadVars, components>>)
    \/ \E scannerNull \in BOOLEAN, plugins \in {"null", "array"},
          max_plugins \in 0..MaxInstalled :
           \/ AUScannerScan(scannerNull, plugins, max_plugins)
           \/ VST3ScannerScan(scannerNull, plugins, max_plugins)

SpecScan == Init /\ [][NextScan]_vars

\* the sample conversions of the AudioUnit backend at every block length
NextConvert ==
    \/ Initialize
    \/ \E direction \in {"interleave", "deinterleave"}, frames \in 0..MaxBlock :
           KeepsHandle /\ UNCHANGED state_data /\ AUConvert(direction, frames)

SpecConvert == Init /\ [][NextConvert]_vars

\* AudioUnit instances constructed from the identifiers a scanner builds
\* and from identifiers no scanner builds: the one of test_invalid_unique_id,
\* too few and too many fields, text behind the third field, a blank, a
\* prefix, signs, a field that is not hexadecimal, lower-case digits
NextIds ==
    \/ \E unique_id \in {CreateUniqueID(desc) : desc \in Descriptions}
                         \cup ({<<>>,
                                <<"i", "n", "v", "a", "l", "i", "d", "-", "f", "o", "r", "m", "a", "t">>,
                                <<"1", "-", "2">>,
                                <<"1", "-", "2", "-">>,
                                <<"1", "-", "2", "-", "3", "-", "4">>,
                                <<"1", "-", "2", "-", "3", "z">>,
                                <<" ", "1", "-", "2", "-", "3">>,
                                <<"0", "x", "1", "-", "2", "-", "3">>,
                                <<"+", "1", "-", "2", "-", "3">>,
                                <<"1", "-", "-", "2", "-", "3">>,
                                <<"1", "-", "g", "-", "3">>,
                                <<"a", "u", "-", "f", "x", "-", "1">>,
                                <<"f", "f", "-", "a", "b", "-", "c", "d">>}),
          found \in {"AudioComponentFindNext", "AudioComponentInstanceNew", "ok"} :
           AUNew(unique_id, found)
    \/ FreeInstance

SpecIds == Init /\ [][NextIds]_vars

\* the MIDI path driven with every kind of status byte; two messages come on
\* another channel, later in the block
NextMidi ==
    \/ InitializeOf({<<44100, MaxBlock - 1>>})
    \/ SendMidiOf({FALSE},
                  SeqsUpTo({MidiEvent(status, 0) :
                                status \in {16, 128, 144, 160, 176, 192, 208, 224, 248}}
                           \cup {[MidiEvent(status, 9) EXCEPT !.sample_offset = 3] :
                                     status \in {149, 224}},
                           MaxBatch))

SpecMidi == Init /\ [][NextMidi]_vars

\* rendering, with the AudioUnit also calling back outside of a render
NextRender ==
    \/ InitializeOf({<<44100, MaxBlock - 1>>})
    \/ Process
    \/ \E n \in FrameCounts, ioOk \in BOOLEAN :
           KeepsHandle /\ UNCHANGED state_data /\ AURenderCallback(n, ioOk)

SpecRender == Init /\ [][NextRender]_vars

\* ------------------------------------------------------------------ claims

\* C1: initialize is idempotent on both backends: once an initialize has
\* succeeded, every further initialize returns Ok, makes no native call and
\* leaves sample rate, block size, channel counts, parameter and preset
\* caches as they were.
C1_InitializeIdempotent ==
    [][(initialized /\ op'.name = "initialize") =>
          /\ ret' = RACK_OK
          /\ calls' = <<>>
          /\ UNCHANGED <<sample_rate, max_block_size, num_input_channels,
                         num_output_channels, parameters, presets,
                         parameter_count, parameter_ids, parameter_info>>]_vars

\* C2: an initialize that returns an error leaves the instance not
\* initialized, with every allocation and native activation of that call
\* undone and the native handle still valid.
C2_FailedInitializeRolledBack ==
    [][(op'.name = "initialize" /\ ret' # RACK_OK) =>
          /\ ~initialized'
          /\ heap' = heap
          /\ busActive' = busActive
          /\ active' = active
          /\ input_buffer_list' = input_buffer_list
          /\ output_buffer_list' = output_buffer_list
          /\ audio_unit' = "valid"]_vars

\* C3: process returns NotInitialized, without a native call and without
\* writing a buffer, exactly when no initialize has succeeded on the
\* instance; everInitOk is set by the initialize calls that return Ok and by
\* nothing else.
C3_ProcessableIffInitialized ==
    [][/\ (op'.name = "initialize" /\ ret' = RACK_OK) => everInitOk'
       /\ (op'.name # "initialize" \/ ret' # RACK_OK) => (everInitOk' = everInitOk)
       /\ op'.name = "process" =>
             /\ (ret' = RACK_ERROR_NOT_INITIALIZED) <=> ~everInitOk
             /\ ~everInitOk => (calls' = <<>> /\ written' = {})]_vars

\* a process call with valid arguments refused after a failed initialize
C3_Witness ==
    /\ op.name = "process"
    /\ op.a.bufs = "ok"
    /\ op.a.frames = 1
    /\ ret = RACK_ERROR_NOT_INITIALIZED
    /\ sample_rate # 0
    /\ ~everInitOk

\* C4: on an initialized instance process returns InvalidParam, before any
\* native call and without writing, when frames is 0, frames exceeds
\* max_block_size, a needed buffer pointer is null or a channel count differs
\* from the negotiated one.
C4_InvalidArgumentsRejected ==
    [][(op'.name = "process" /\ initialized
        /\ LET a == op'.a IN
           \/ a.frames = 0
           \/ a.frames > max_block_size
           \/ IF backend = "AU" THEN a.bufs # "ok"
              ELSE \/ a.nin # num_input_channels
                   \/ a.nout # num_output_channels
                   \/ (a.nin > 0 /\ a.bufs = "in_null")
                   \/ (a.nout > 0 /\ a.bufs = "out_null")) =>
          /\ ret' = RACK_ERROR_INVALID_PARAM
          /\ calls' = <<>>
          /\ written' = {}]_vars

C6_SendMidiAllOrNothing ==
    [][(op'.name = "send_midi" /\ initialized /\ ~op'.a.evNull
        /\ \E i \in 1..Len(op'.a.events) :
              op'.a.events[i].status < 240 /\ op'.a.events[i].channel > 15) =>
          /\ ret' = RACK_ERROR_INVALID_PARAM
          /\ calls' = <<>>
          /\ input_events' = input_events]_vars

\* C7: send_midi with event_count 0 returns Ok in every instance state,
\* whether or not the events pointer is null, and changes nothing.
C7_EmptyBatchIsOk ==
    [][(op'.name = "send_midi" /\ op'.a.event_count = 0) =>
          /\ ret' = RACK_OK
          /\ calls' = <<>>
          /\ input_events' = input_events]_vars

\* C8 as stated: get_parameter and set_parameter with index >=
\* parameter_count() return InvalidParam in every instance state, make no
\* native call and no out-of-range cache access.
C8_OutOfRangeIsInvalidParam ==
    [][(op'.name \in {"get_parameter", "set_parameter"}
        /\ op'.a.index >= ParameterCount) =>
          /\ ret' = RACK_ERROR_INVALID_PARAM
          /\ calls' = <<>>
          /\ ~oob']_vars

\* C8 amended: get_parameter and set_parameter with index >=
\* parameter_count() never return Ok, make no native call and no out-of-range
\* cache access; the code is InvalidParam, except on an AU instance that is
\* not initialized, where it is NotInitialized.
C8_OutOfRangeRejected ==
    [][(op'.name \in {"get_parameter", "set_parameter"}
        /\ op'.a.index >= ParameterCount) =>
          /\ ret' = IF backend = "AU" /\ ~initialized
                    THEN RACK_ERROR_NOT_INITIALIZED
                    ELSE RACK_ERROR_INVALID_PARAM
          /\ calls' = <<>>
          /\ ~oob']_vars

\* the first index past the end on an initialized instance with parameters
C8_Witness ==
    /\ op.name = "set_parameter"
    /\ initialized
    /\ ParameterCount > 0
    /\ op.a.index = ParameterCount
    /\ ret = RACK_ERROR_INVALID_PARAM

C10_SetParameterClamps ==
    [][(op'.name = "set_parameter" /\ calls' # <<>>
        /\ calls'[Len(calls')].f \in {"AudioUnitSetParameter", "setParamNormalized"}) =>
          LET c == calls'[Len(calls')]
              v == Clamp01(op'.a.value)
          IN
          IF backend = "AU"
          THEN LET range == NativeInfo(c.id) IN
               c.value = range[1] * NormOne + v * (range[2] - range[1])
          ELSE /\ c.value = v
               /\ \A k \in 1..Len(input_param_changes') :
                     input_param_changes'[k].id = c.id =>
                        input_param_changes'[k].value = v]_vars

\* C11: get_parameter, whenever it returns Ok, yields a value in [0,1].
C11_GetParameterInRange ==
    (op.name = "get_parameter" /\ ret = RACK_OK) => outv \in 0..NormOne

\* C12 as stated: AU get_parameter returns 0.0 whenever max - min < epsilon
\* (zero, near-zero or negative span) and only otherwise computes
\* (native - min) / (max - min) clamped to [0,1].
C12_DegenerateRangeIsZero ==
    [][(backend = "AU" /\ op'.name = "get_parameter" /\ ret' = RACK_OK) =>
          LET id == IdAt(parameter_ids, op'.a.index)
              span == NativeInfo(id)[2] - NativeInfo(id)[1]
              d == NativeValue(id) - NativeInfo(id)[1] * NormOne
          IN
          IF span < Epsilon THEN outv' = 0
          ELSE IF d <= 0 THEN outv' = 0
          ELSE IF d >= NormOne * span THEN outv' = NormOne
          ELSE outv' * span <= d /\ d < (outv' + 1) * span]_vars

\* C12 amended: AU get_parameter returns 0.5 when max < min, 0.0 when
\* 0 <= max - min <= epsilon, and only otherwise computes
\* (native - min) / (max - min) clamped to [0,1]; it never divides by a
\* degenerate span.
C12_DegenerateRangeGuarded ==
    [][(backend = "AU" /\ op'.name = "get_parameter" /\ ret' = RACK_OK) =>
          LET id == IdAt(parameter_ids, op'.a.index)
              span == NativeInfo(id)[2] - NativeInfo(id)[1]
              d == NativeValue(id) - NativeInfo(id)[1] * NormOne
          IN
          IF span < 0 THEN 2 * outv' = NormOne
          ELSE IF span <= Epsilon THEN outv' = 0
          ELSE IF d <= 0 THEN outv' = 0
          ELSE IF d >= NormOne * span THEN outv' = NormOne
          ELSE outv' * span <= d /\ d < (outv' + 1) * span]_vars

\* a parameter whose span equals epsilon, written by set_parameter and read
\* back as 0.0
C12_Witness ==
    /\ backend = "AU"
    /\ op.name = "get_parameter"
    /\ ret = RACK_OK
    /\ NativeInfo(IdAt(parameter_ids, op.a.index)) = <<1, 2>>
    /\ NativeValue(IdAt(parameter_ids, op.a.index)) > 1 * NormOne
    /\ outv = 0

\* C13: the parameter cache is all-or-nothing: after initialize the adapter
\* lists every native parameter at its own index, whether or not a descriptor
\* query failed, and serves either a descriptor cache covering all of them or
\* none.
C13_CacheAllOrNothing ==
    initialized =>
       /\ (backend = "VST3" /\ ctrl # "none") =>
             parameters = [i \in 1..Len(plugRanges) |-> i]
       /\ (backend = "AU" /\ parameter_count > 0) =>
             /\ parameter_ids = [i \in 1..Len(plugRanges) |-> i]
             /\ parameter_info \in {<<>>, plugRanges}

\* C14: state round trip, both backends: on an initialized instance, when
\* get_state has returned Ok and the next call hands the blob it filled to
\* set_state, and the plugin accepts its own state back, set_state returns Ok
\* and every parameter keeps its native value, so get_parameter(index) is
\* unchanged for every index.
C14_StateRoundTrip ==
    [][(/\ initialized
        /\ op.name = "get_state" /\ ret = RACK_OK
        /\ op'.name = "set_state"
        /\ ~op'.a.dataNull /\ op'.a.data = state_data
        /\ Len(calls') > 0 /\ calls'[Len(calls')].f \in {"component.setState",
                                                     "AudioUnitSetProperty"}
           => calls'[Len(calls')].ok)
       => (ret' = RACK_OK /\ pvalue' = pvalue)]_vars

\* C15: the blob VST3 get_state fills on success is the component's state
\* bytes, then the 4-byte marker holding their number, placed directly behind
\* them and over none of them, then the controller's state bytes exactly when
\* the controller is separate.
C15_BlobLayout ==
    (backend = "VST3" /\ op.name = "get_state" /\ ret = RACK_OK)
    => state_data = Bytes(ComponentState.pad,
                          ComponentState.bytes
                          \o MarkerBytes(Size(ComponentState))
                          \o (IF ctrl = "separate" THEN ControllerState ELSE <<>>))

\* C16: VST3 set_state with a separate controller, once the component has
\* accepted the blob: when the blob holds the marker behind the component's
\* state, the controller is restored from the position behind the marker
\* (component state length + 4), however many bytes the component consumed;
\* when the blob ends with the component's state, the controller is not
\* restored and set_state returns Ok.
C16_ControllerFromMarker ==
    [][(/\ backend = "VST3" /\ ctrl = "separate"
        /\ op'.name = "set_state"
        /\ ~op'.a.dataNull /\ Size(op'.a.data) > 0
        /\ calls'[1].ok
        /\ \/ Size(op'.a.data) <= Size(ComponentState)
           \/ /\ Size(op'.a.data) >= Size(ComponentState) + MarkerSize
              /\ SubSeq(op'.a.data.bytes, Len(ComponentState.bytes) + 1,
                        Len(ComponentState.bytes) + MarkerSize)
                 = MarkerBytes(Size(ComponentState)))
       => IF Size(op'.a.data) > Size(ComponentState)
          THEN /\ Len(calls') = 2
               /\ calls'[2].f = "controller.setState"
               /\ calls'[2].at = Size(ComponentState) + MarkerSize
          ELSE Len(calls') = 1 /\ ret' = RACK_OK]_vars

\* C17: size then fill, both backends: on an initialized instance, get_state
\* called with a buffer of the size get_state_size has just returned does not
\* fail for lack of space: the serialized state is no longer than that size.
C17_SizeThenFill ==
    [][(/\ initialized
        /\ op.name = "get_state_size" /\ outv > 0
        /\ op'.name = "get_state"
        /\ op'.a.arg = "ok" /\ op'.a.size = outv)
       => /\ backend = "VST3" => ret' # RACK_ERROR_INVALID_PARAM
          /\ backend = "AU" => Len(AUClassInfo) <= op'.a.size]_vars

\* C18: free on an initialized VST3 instance tears down in reverse order of
\* acquisition: processing is stopped, then the component deactivated, then
\* the connection points disconnected, then the controller terminated, then
\* the component terminated and the module released; every step whose
\* resource is held is made and no step comes before an earlier one.
C18_FreeReverseOrder ==
    [][(/\ backend = "VST3" /\ initialized
        /\ op'.name = "free" /\ ~op'.a.pluginNull)
       => LET made == {calls'[i].f : i \in DOMAIN calls'}
              Rank(call) ==
                  CASE call.f = "setProcessing:false" -> 1
                    [] call.f = "setActive:false" -> 2
                    [] call.f \in {"component_cp.disconnect",
                                   "controller_cp.disconnect"} -> 3
                    [] call.f = "controller.terminate" -> 4
                    [] call.f = "component.terminate" -> 5
                    [] call.f = "module.release" -> 6
                    [] OTHER -> 7
          IN
          /\ processing => "setProcessing:false" \in made
          /\ active => "setActive:false" \in made
          /\ "component_cp" \in natives => "component_cp.disconnect" \in made
          /\ "controller_cp" \in natives => "controller_cp.disconnect" \in made
          /\ "controller" \in natives => "controller.terminate" \in made
          /\ "component.terminate" \in made
          /\ "module.release" \in made
          /\ \A i, j \in DOMAIN calls' :
                 i < j => Rank(calls'[i]) <= Rank(calls'[j])]_vars

\* C19: after any history of initialize, reset and process calls, one free
\* releases every native object and every block the instance holds, each
\* once: every release is of something still held, no two releases are of
\* the same thing, nothing stays held; free(null) changes nothing.
C19_FreeReleasesOnce ==
    [][op'.name = "free" =>
          IF op'.a.pluginNull
          THEN UNCHANGED <<plugVars, nativeVars, handleVars, auFields, vstFields,
                           cfgFields, state_data>>
          ELSE /\ \A i \in DOMAIN calls' :
                     Released(calls'[i]) # "none"
                     => /\ Released(calls'[i]) \in natives \cup heap
                        /\ \A j \in DOMAIN calls' :
                               Released(calls'[j]) = Released(calls'[i]) => j = i
               /\ natives' = {}
               /\ heap' = {}]_vars

\* an initialized AudioUnit with both parameter caches has been freed: the
\* instance, the AudioUnit, six buffer blocks and two caches were released
C19_Witness ==
    /\ backend = "AU"
    /\ op.name = "free" /\ ~op.a.pluginNull
    /\ freed
    /\ initialized
    /\ Cardinality(ReleasedBy(calls)) = 10

\* C20: whenever VST3 process returns after reaching the native process
\* entry, with Ok or with the native error, that one native call was handed
\* everything queued since the last one and both input queues are empty
\* afterwards, so nothing queued is presented to a later block again.
C20_QueuesClearedPerBlock ==
    [][(backend = "VST3" /\ op'.name = "process" /\ Len(calls') > 0)
       => /\ Len(calls') = 1
          /\ calls'[1].f = "process"
          /\ calls'[1].inputEvents = input_events
          /\ calls'[1].inputParameterChanges = input_param_changes
          /\ input_events' = <<>>
          /\ input_param_changes' = <<>>]_vars

\* a native process call that failed was handed queued events and a queued
\* parameter change, and the queues are empty after it
C20_Witness ==
    /\ backend = "VST3"
    /\ op.name = "process" /\ ret = RACK_ERROR_GENERIC
    /\ Len(calls) = 1
    /\ Len(calls[1].inputEvents) = MaxQueue
    /\ Len(calls[1].inputParameterChanges) > 0
    /\ input_events = <<>>
    /\ input_param_changes = <<>>

\* C21: the AU sample position is 0 at first; each process that returns Ok
\* adds exactly its frames to it, a process that fails and every other
\* operation leave it alone, so it never decreases; and the time stamp of
\* each native render call is the position before the call, the sum of the
\* frames of all earlier successful process calls.
C21_SamplePositionAccumulates ==
    /\ sample_position = 0
    /\ [][/\ sample_position' =
                IF backend = "AU" /\ op'.name = "process" /\ ret' = RACK_OK
                THEN sample_position + op'.a.frames
                ELSE sample_position
          /\ sample_position' >= sample_position
          /\ \A i \in DOMAIN calls' :
                 (backend = "AU" /\ op'.name = "process"
                  /\ calls'[i].f = "AudioUnitRender")
                 => calls'[i].time = sample_position]_vars

\* a second successful AU process: rendered at a time stamp above 0 and
\* the position is that time stamp plus its frames
C21_Witness ==
    /\ backend = "AU"
    /\ op.name = "process" /\ ret = RACK_OK
    /\ calls[1].f = "AudioUnitRender"
    /\ calls[1].time > 0
    /\ sample_position = calls[1].time + op.a.frames

\* C22: across any interleaving of new, initialize, reset and free on different
\* instances from different threads, no two native create, activate,
\* deactivate or dispose calls run at the same time
C22_LifecycleNativesSerialized ==
    \A t1, t2 \in Threads :
        (t1 # t2 /\ thread_at[t1] \in LifecycleNatives)
        => thread_at[t2] \notin LifecycleNatives

\* C23: a thread inside process holds no lifecycle mutex and can always take
\* its next step, whatever another thread is doing inside new, initialize,
\* reset or free of a different instance
C23_ProcessTakesNoLock ==
    \A t \in Threads :
        thread_fn[t] = "process"
        => /\ g_audio_unit_cleanup_mutex # t
           /\ g_vst3_lifecycle_mutex # t
           /\ "lock" \notin {thread_steps[t][i] : i \in DOMAIN thread_steps[t]}
           /\ ENABLED ThreadStep(t)

C23_Witness ==
    \E t1, t2 \in Threads :
        /\ thread_fn[t1] = "process"
        /\ thread_at[t1] \in {"process", "AudioUnitRender"}
        /\ thread_backend[t1] = thread_backend[t2]
        /\ thread_fn[t2] \in {"initialize", "reset"}
        /\ thread_at[t2] \in LifecycleNatives
        /\ t2 \in {g_audio_unit_cleanup_mutex, g_vst3_lifecycle_mutex}

\* C24: reset on an initialized instance deactivates and then reactivates the
\* component, leaves every parameter value, the sample rate, the block size,
\* the channel counts and the parameter and preset caches unchanged, and
\* leaves the instance initialized and processable (active and processing)
C24_ResetKeepsInstance ==
    [][(op'.name = "reset" /\ initialized)
       => /\ calls' = <<Call("setActive:false"), Call("setActive:true")>>
          /\ UNCHANGED <<pvalue, sample_rate, max_block_size, num_input_channels,
                         num_output_channels, parameter_count, parameter_ids,
                         parameter_info, parameters, presets>>
          /\ initialized' /\ active' /\ processing']_vars

\* C25: on an instance on which no initialize has succeeded, process, reset,
\* get_parameter, set_parameter, the state functions and send_midi with at
\* least one event return an error (0 for the size query), call nothing in
\* the native plugin and leave the instance, its queues included, unchanged
C25_NotInitializedRejected ==
    [][(/\ ~everInitOk
        /\ op'.name \in {"process", "reset", "get_parameter", "set_parameter",
                         "get_state_size", "get_state", "set_state", "send_midi"}
        /\ op'.name = "send_midi" => op'.a.event_count > 0)
       => /\ IF op'.name = "get_state_size" THEN outv' = 0 ELSE ret' # RACK_OK
          /\ calls' = <<>>
          /\ UNCHANGED <<nativeVars, auFields, vstFields, cfgFields>>]_vars

\* C26: VST3 load_preset of a cached preset calls the program-data interface
\* first, then writes program-selector parameters, then selects units, in
\* that order; every call made before the last one failed (the read of the
\* program data apart, which is followed by its write); it returns Ok exactly
\* when the last call made succeeded in loading, and a generic error
\* otherwise; the program-data read and write are made at most once
C26_LoadPresetStrategyOrder ==
    [][(backend = "VST3" /\ op'.name = "load_preset" /\ Cached(op'.a.preset_number))
       => LET cs == calls'
              n == Len(cs)
              Strategy(c) == IF c.f \in {"getProgramData", "setProgramData"} THEN 1
                             ELSE IF c.f = "setParamNormalized" THEN 2
                             ELSE 3
              Loads(c) == c.f # "getProgramData" /\ c.ok
          IN
          /\ \A i \in 1..n : cs[i].f \in {"getProgramData", "setProgramData",
                                          "setParamNormalized", "selectUnit"}
          /\ \A i, j \in 1..n : i < j => Strategy(cs[i]) <= Strategy(cs[j])
          /\ \A i \in 1..(n - 1) : ~Loads(cs[i])
          /\ \A i \in 1..n :
                 cs[i].f = "getProgramData"
                 => /\ i = 1
                    /\ cs[i].ok <=> (n > 1 /\ cs[2].f = "setProgramData")
          /\ \A i \in 1..n : cs[i].f = "setProgramData" => i = 2
          /\ ret' = RACK_OK <=> (n > 0 /\ Loads(cs[n]))
          /\ ret' \in {RACK_OK, RACK_ERROR_GENERIC}]_vars

C26_Witness ==
    /\ backend = "VST3"
    /\ op.name = "load_preset" /\ ret = RACK_OK
    /\ Len(calls) = 5
    /\ calls[2].f = "setProgramData" /\ ~calls[2].ok
    /\ calls[3].f = "setParamNormalized" /\ ~calls[3].ok
    /\ calls[4].f = "selectUnit" /\ ~calls[4].ok
    /\ calls[5].f = "selectUnit" /\ calls[5].ok

\* C27: once an initialize has succeeded the preset list never changes:
\* get_preset_count keeps returning the number of programs found then,
\* get_preset_info(i) keeps answering for exactly the indices below it, and
\* the cache behind them is left alone by every later call
C27_PresetListBuiltOnce ==
    [][/\ (everInitOk /\ backend = "VST3") => presets' = presets
       /\ (everInitOk /\ initialized /\ op'.name = "get_preset_count"
           /\ (backend = "AU" => calls'[1].ok))
          => outv' = IF backend = "VST3" /\ ctrl = "none" THEN 0 ELSE plugPrograms
       /\ (everInitOk /\ initialized /\ op'.name = "get_preset_info"
           /\ ~op'.a.argNull /\ (backend = "AU" => calls'[1].ok))
          => (ret' = RACK_OK <=>
                 op'.a.index < (IF backend = "VST3" /\ ctrl = "none" THEN 0
                                ELSE plugPrograms))]_vars

\* C28: a process or set_parameter call that the native plugin rejects
\* returns the architecture's base plus the native status: when the call
\* reached the plugin and did not return Ok its code is none of the four
\* fixed codes, and it does not return Ok when the plugin refused the write
C28_NativeErrorsPreserved ==
    [][op'.name \in {"process", "set_parameter"}
       => /\ (calls' # <<>> /\ ret' # RACK_OK)
             => ret' \notin {RACK_ERROR_GENERIC, RACK_ERROR_NOT_FOUND,
                             RACK_ERROR_INVALID_PARAM, RACK_ERROR_NOT_INITIALIZED}
          /\ \A i \in DOMAIN calls' :
                 ("accepted" \in DOMAIN calls'[i] /\ ~calls'[i].accepted)
                 => ret' # RACK_OK]_vars

\* C29: for every native status s other than 0 the code an AudioUnit
\* operation returns is RACK_AU_ERROR_AUDIO_UNIT + s computed without leaving
\* the 32-bit range, is neither RACK_AU_OK nor one of the four fixed codes,
\* and gives s back as code - RACK_AU_ERROR_AUDIO_UNIT
C29_StatusOffsetEncoding ==
    (backend = "AU" /\ op.name = "load_preset" /\ calls # <<>>
     /\ calls[1].status # noErr)
    => /\ Len(calls) = 1
       /\ calls[1].status >= (-Int32Max - 1) - RACK_AU_ERROR_AUDIO_UNIT
       /\ ret = RACK_AU_ERROR_AUDIO_UNIT + calls[1].status
       /\ ret \notin {RACK_OK, RACK_ERROR_GENERIC, RACK_ERROR_NOT_FOUND,
                      RACK_ERROR_INVALID_PARAM, RACK_ERROR_NOT_INITIALIZED}
       /\ ret - RACK_AU_ERROR_AUDIO_UNIT = calls[1].status

C31_MidiTranslation ==
    [][(backend = "VST3" /\ op'.name = "send_midi" /\ ret' = RACK_OK
        /\ \A k \in DOMAIN op'.a.events : op'.a.events[k].status >= 128)
       => LET channelMessages ==
                  SelectSeq(op'.a.events, LAMBDA e : e.status < 240)
              Legacy(e, controlNumber, value, value2) ==
                  [type |-> "kLegacyMIDICCOutEvent", sampleOffset |-> e.sample_offset,
                   channel |-> e.channel, controlNumber |-> controlNumber,
                   value |-> value, value2 |-> value2]
              Note(e, type) ==
                  [type |-> type, sampleOffset |-> e.sample_offset,
                   channel |-> e.channel, pitch |-> e.data1, velocity |-> e.data2]
              Queued(e) ==
                  CASE e.status \in 128..143 -> Note(e, "kNoteOffEvent")
                    [] e.status \in 144..159 -> Note(e, "kNoteOnEvent")
                    [] e.status \in 160..175 ->
                           [type |-> "kPolyPressureEvent",
                            sampleOffset |-> e.sample_offset, channel |-> e.channel,
                            pitch |-> e.data1, pressure |-> e.data2]
                    [] e.status \in 176..191 -> Legacy(e, e.data1, e.data2, 0)
                    [] e.status \in 192..207 -> Legacy(e, 128, e.data1, 0)
                    [] e.status \in 208..223 -> Legacy(e, 129, e.data1, 0)
                    [] e.status \in 224..239 -> Legacy(e, 130, e.data1, e.data2)
          IN /\ Len(input_events') = Len(input_events) + Len(channelMessages)
             /\ SubSeq(input_events', 1, Len(input_events)) = input_events
             /\ \A k \in DOMAIN channelMessages :
                    input_events'[Len(input_events) + k] = Queued(channelMessages[k])]_vars

\* a batch of a system message and a pitch bend at a non-zero offset has
\* queued the pitch bend alone
C31_Witness ==
    /\ backend = "VST3"
    /\ op.name = "send_midi"
    /\ ret = RACK_OK
    /\ Len(op.a.events) = 2
    /\ op.a.events[1].status = 248
    /\ op.a.events[2].status = 224
    /\ op.a.events[2].sample_offset > 0
    /\ Len(input_events) = 1
    /\ input_events[1].controlNumber = 130
    /\ input_events[1].value2 = op.a.events[2].data2
    /\ input_events[1].sampleOffset = op.a.events[2].sample_offset


\* C32: the AU input pointer captured for the render callback is null in
\* every state between calls: after new and after every return of process,
\* whether the render succeeded or failed; a render callback invoked while it
\* is null flags silence, returns noErr and neither reads the caller's input
\* nor writes the native buffers.
C32_CurrentInputOnlyWhileProcessing ==
    /\ ~current_input
    /\ (op.name = "input_render_callback" /\ ~current_input)
       => /\ ret = noErr
          /\ calls[1].silence
          /\ calls[1].read = {}
          /\ calls[1].wrote = {}

\* the AudioUnit calls back after a block was rendered through the callback
\* and after a render that failed
C32_Witness ==
    /\ backend = "AU"
    /\ initialized
    /\ op.name = "input_render_callback"
    /\ op.a.n > 0
    /\ op.a.ioOk
    /\ sample_position > 0
    /\ calls[1].silence


\* C33: for the plug-ins installed at the time of the call, scan returns
\* their total number whatever plugins and max_plugins are passed, so that
\* the count-only pass and a fill pass return the same number; a fill pass
\* writes exactly the entries 0 .. min(total, max_plugins) - 1 and a
\* count-only pass writes none (both scanners).
C33_ScanTwoPass ==
    [][(op'.name = "scan" /\ ~op'.a.scannerNull)
       => LET total == Cardinality({i \in DOMAIN installed : installed[i].described})
              filled == IF op'.a.plugins = "null" THEN 0
                        ELSE IF total < op'.a.max_plugins THEN total
                        ELSE op'.a.max_plugins
          IN /\ ret' = total
             /\ written' = {<<1, k>> : k \in 0..(filled - 1)}]_vars


\* C34: in every reachable state of a VST3 instance, is_initialized == 1
\* implies that the native component is active, after reset too, whether it
\* returned Ok or an error.
C34_InitializedImpliesActive ==
    (backend = "VST3" /\ ~freed /\ initialized) => active


C36_TooSmallBufferReported ==
    [][(op'.name = "get_state" /\ op'.a.arg = "ok")
       => /\ (/\ backend = "VST3"
              /\ ret' # RACK_ERROR_GENERIC
              /\ \/ op'.a.size < MarkerSize
                 \/ ret' = RACK_ERROR_INVALID_PARAM)
             => /\ ret' < 0
                /\ outv' > op'.a.size
                /\ UNCHANGED state_data
          /\ (backend = "AU" /\ Len(calls') = 2 /\ Len(AUClassInfo) > op'.a.size)
             => /\ ret' < 0
                /\ UNCHANGED state_data]_vars

\* C36, amended: the same for a buffer of non-zero size; a retry with a
\* buffer of the size stored, for which the plugin serializes as many bytes
\* again, returns Ok; with *size = 0 VST3 get_state returns InvalidParam
\* without asking the plugin and leaves *size and the buffer as they were.
C36_NonEmptyTooSmallBufferReported ==
    [][(op'.name = "get_state" /\ op'.a.arg = "ok")
       => /\ (/\ backend = "VST3"
              /\ ret' # RACK_ERROR_GENERIC
              /\ op'.a.size > 0
              /\ \/ op'.a.size < MarkerSize
                 \/ ret' = RACK_ERROR_INVALID_PARAM)
             => /\ ret' < 0
                /\ outv' > op'.a.size
                /\ UNCHANGED state_data
          /\ (/\ backend = "VST3"
              /\ op.name = "get_state" /\ ret = RACK_ERROR_INVALID_PARAM
              /\ calls # <<>>
              /\ op'.a.size = outv
              /\ ret' # RACK_ERROR_GENERIC
              /\ outv' = outv)
             => /\ ret' = RACK_OK
                /\ Size(state_data') = outv
          /\ (backend = "VST3" /\ op'.a.size = 0)
             => /\ ret' = RACK_ERROR_INVALID_PARAM
                /\ calls' = <<>>
                /\ outv' = 0
                /\ UNCHANGED state_data
          /\ (backend = "AU" /\ Len(calls') = 2 /\ Len(AUClassInfo) > op'.a.size)
             => /\ ret' < 0
                /\ UNCHANGED state_data]_vars

\* a VST3 get_state retried with the size the failed call stored has filled
\* the buffer to exactly that size
C36_Witness ==
    /\ backend = "VST3"
    /\ op.name = "get_state"
    /\ ret = RACK_OK
    /\ op.a.size = outv
    /\ outv \notin {2, StateSizeHint}
    /\ Size(state_data) = outv


C39_UniqueIdRoundTrip ==
    [][(backend = "AU" /\ op'.name = "new")
       => LET id == op'.a.unique_id
              Hex(j) == HexValue(id[j]) >= 0
              ThreeHexFields ==
                  \E i, j \in DOMAIN id :
                      /\ 1 < i /\ i + 1 < j /\ j < Len(id)
                      /\ id[i] = "-" /\ id[j] = "-"
                      /\ \A k \in DOMAIN id \ {i, j} : Hex(k)
          IN /\ \A desc \in Descriptions :
                    id = CreateUniqueID(desc)
                    => /\ op'.a.outcome # "parse_unique_id"
                       /\ op'.a.desc = desc
             /\ ~ThreeHexFields
                => /\ op'.a.outcome = "parse_unique_id"
                   /\ outv' = 0]_vars



\* C40: in load_preset's program-selector fallback a parameter is written
\* only when its step count is greater than 0 and the preset's program index
\* lies in 0..stepCount; the value written is program_index / stepCount, a
\* value in [0,1], so nothing is divided by a step count of zero.
C40_SelectorValueInRange ==
    [][(backend = "VST3" /\ op'.name = "load_preset")
       => \A k \in DOMAIN calls' :
              calls'[k].f = "setParamNormalized"
              => LET program_index == presets[op'.a.preset_number + 1].program_index
                     stepCount == calls'[k].stepCount
                 IN /\ stepCount > 0
                    /\ 0 <= program_index /\ program_index <= stepCount
                    /\ calls'[k].value = (program_index * NormOne) \div stepCount
                    /\ calls'[k].value \in 0..NormOne]_vars

====
